---- MODULE Spec2Model ----
(***************************************************************************)
(* A model of five parts of the repository:                                *)
(*   - SledTree, the typed wrapper over one sled::Tree that multiplexes    *)
(*     several key spaces (fusestore/store/src/meta_service/sled_tree.rs); *)
(*   - PipelineBuilder::build, which turns a plan tree into a pipeline     *)
(*     (fusequery/query/src/pipelines/processors/pipeline_builder.rs);     *)
(*   - Session, its cancellation and its query context                     *)
(*     (query/src/sessions/session.rs);                                    *)
(*   - SessionRef and the destruction of sessions                          *)
(*     (query/src/sessions/session_ref.rs);                                *)
(*   - StorageConfig and its Debug output                                  *)
(*     (query/src/configs/config_storage.rs).                              *)
(* Spec is the typed tree with a single caller, SpecCodec the typed tree   *)
(* with a codec that can fail, SpecConc the typed tree with concurrent     *)
(* callers, SpecPipe the pipeline builder, SpecSource the builder on plans *)
(* that may read no partition, SpecTwin two builds of one plan, SpecSess a *)
(* session with concurrent callers, SpecSessLive the same with its threads *)
(* and tasks scheduled fairly, SpecRef the session references, SpecCfg the *)
(* storage configuration.  Every specification keeps the variables of the  *)
(* other parts at their idle values.                                       *)
(***************************************************************************)
EXTENDS Integers, Sequences, FiniteSets, TLC

VARIABLES
    pc,          \* the caller's position: "closed", "idle", "done" (a call has returned),
                 \* "scanned" (a range_delete between its scan and its batch)
    sync,        \* SledTree.sync
    tree,        \* SledTree.tree: the sled tree, a function from byte keys to byte values
    fsync_calls, \* sled flush_async calls counted by the instrumented store since the
                 \* caller last took a result
    call,        \* the call that has just returned (pc = "done") or is running ("scanned")
    ret,         \* its result
    pre,         \* the tree as it was when that call started
    rd_batch,    \* the sled::Batch a running range_delete has built
    rpc,         \* a concurrent reader's position: "idle", "scanning", "done"
    rcall,       \* the reader's call
    rret,        \* its result
    items,       \* the items its range iterator has yielded so far
    seen,        \* what happened to the tree while the reader iterates: the number of
                 \* changes (2 for: several, or one that was not a batch) and, for
                 \* exactly one batch, the tree before it
    plan,        \* PipelineBuilder.plan: the nodes of the plan, the root first
    ctx,         \* PipelineBuilder.ctx: max_threads and the partitions bound to it
    bpc,         \* build's position: "start", "walk" (in walk_postorder), "done"
    at,          \* the node walk_postorder visits next
    limit,       \* build's local limit
    pipeline,    \* build's local pipeline: a sequence of pipes, each a sequence of
                 \* processors
    bret,        \* what build returned
    scheduled,   \* the number of executors PlanScheduler::reschedule returned last
    twin,        \* a second PipelineBuilder on the same plan: its ctx and the locals
                 \* of its build
    replies,     \* the scheduler both builders use: for the input of every Stage
                 \* node, the number of executors reschedule returns
    mutable_state, \* Session.mutable_state: the MutableStatus the mutex guards
    lock,        \* the thread that holds the mutex of mutable_state, 0 when free
    callers,     \* the threads that call the session's methods: the method, the
                 \* position in it and its locals
    chans,       \* per attach: the oneshot channel of io_shutdown_tx, the task
                 \* attach spawned and the reply channel kill sends it
    contexts,    \* the DatabendQueryContextShared created so far
    ncalls,      \* the number of calls made on the session so far
    table,       \* SessionManager: the ids of the sessions it holds
    refs,        \* per session id, the number of live SessionRef
    handles,     \* the Arc<SessionManager> held outside the sessions
    destroyed,   \* per session id, the number of destroy_session calls
    config,      \* a StorageConfig
    shown,       \* its Debug output
    cpc          \* "default", "loaded" (load_from_env has run), "shown"

treeVars == <<pc, sync, tree, fsync_calls, call, ret, pre>>

concVars == <<rd_batch, rpc, rcall, rret, items, seen>>

pipeVars == <<plan, ctx, bpc, at, limit, pipeline, bret, scheduled>>

twinVars == <<twin, replies>>

sessVars == <<mutable_state, lock, callers, chans, contexts, ncalls>>

refVars == <<table, refs, handles, destroyed>>

cfgVars == <<config, shown, cpc>>

moreVars == <<sessVars, refVars, cfgVars>>

otherVars == <<twinVars, moreVars>>

vars == <<treeVars, concVars, pipeVars, otherVars>>

(***************************************************************************)
(* Bounds of the model.                                                    *)
(***************************************************************************)
MaxKey == 1      \* the keys of key space A are 0 .. MaxKey
MaxKeyB == 0     \* the keys of key space B are 0 .. MaxKeyB
MaxBatch == 2    \* append / append_values take at most MaxBatch entries
MaxDepth == 3    \* a plan has at most MaxDepth nodes above its leaf
MaxLimit == 2    \* LimitPlan.n is in 1 .. MaxLimit
MaxThreads == 2  \* the context's max_threads
MaxParts == 2    \* the number of partitions of a ReadSource
MaxExecutors == 2 \* the scheduler returns at most MaxExecutors executors
MaxDepthSrc == 1  \* depth of the plans built on every context and source
MaxDepthTwin == 2 \* depth of the plans built twice
MaxCallers == 2  \* the threads that call the methods of a session
MaxAttach == 2   \* attach is called at most MaxAttach times
MaxContexts == 2 \* at most MaxContexts query contexts are created
MaxCalls == 5    \* at most MaxCalls calls are made on a session
MaxSessions == 2 \* the session manager creates at most MaxSessions sessions
MaxRefs == 2     \* a session has at most MaxRefs live SessionRef
MaxHandles == 2  \* at most MaxHandles manager handles are held outside the sessions
MaxDestroys == 2 \* a SessionRef is cloned while destroy_session ran fewer than MaxDestroys times for its session
MaxStr == 1      \* a configuration field holds "" or one of MaxStr other strings

KeysOf(ks) == IF ks = "A" THEN 0 .. MaxKey ELSE 0 .. MaxKeyB
Vals == {"x", "y"}
KeySpaces == {"A", "B"}
TreeName == "test-tree"

(***************************************************************************)
(* Option<T> is a sequence of length at most one.                          *)
(***************************************************************************)
None == << >>
Some(x) == <<x>>

(***************************************************************************)
(* Byte strings and their order (sled orders keys as unsigned byte         *)
(* strings, a proper prefix being smaller).                                *)
(***************************************************************************)
BytesLess(a, b) ==
    \E i \in 1 .. Len(b) :
        /\ i <= Len(a) + 1
        /\ \A j \in 1 .. (i - 1) : a[j] = b[j]
        /\ (i = Len(a) + 1 \/ a[i] < b[i])

BytesLeq(a, b) == a = b \/ BytesLess(a, b)

(***************************************************************************)
(* The key space codec (SledKeySpace; its file is not among the sources).  *)
(* Every key space owns an exclusive one-byte prefix; a key is the prefix  *)
(* followed by the order-preserving big-endian digits of the key.          *)
(***************************************************************************)
PREFIX(ks) == IF ks = "A" THEN 1 ELSE 2

NAME(ks) == IF ks = "A" THEN "space-a" ELSE "space-b"

order_preserved_serialize(k) == <<k \div 2, k % 2>>

serialize_key(ks, k) == <<PREFIX(ks)>> \o order_preserved_serialize(k)

deserialize_key(ks, b) == 2 * b[2] + b[3]

serialize_value(ks, v) == <<"json", v>>

deserialize_value(ks, b) == b[2]

\* A bound of a range: Unbounded, Included(key) or Excluded(key).
Unbounded == [kind |-> "Unbounded", at |-> << >>]
Included(x) == [kind |-> "Included", at |-> <<x>>]
Excluded(x) == [kind |-> "Excluded", at |-> <<x>>]

serialize_bound(ks, b, left) ==
    IF b.kind = "Unbounded"
    THEN IF left THEN Included(<<PREFIX(ks)>>) ELSE Excluded(<<PREFIX(ks) + 1>>)
    ELSE [kind |-> b.kind, at |-> <<serialize_key(ks, b.at[1])>>]

serialize_range(ks, r) ==
    [start |-> serialize_bound(ks, r.start, TRUE), end |-> serialize_bound(ks, r.end, FALSE)]

(***************************************************************************)
(* The sled tree operations the wrapper calls.                             *)
(***************************************************************************)
EmptyTree == [b \in {} |-> << >>]

sled_insert(t, b, v) == [x \in DOMAIN t \cup {b} |-> IF x = b THEN v ELSE t[x]]

sled_remove(t, b) == [x \in DOMAIN t \ {b} |-> t[x]]

sled_get(t, b) == IF b \in DOMAIN t THEN Some(t[b]) ELSE None

AboveStart(b, s) ==
    \/ s.kind = "Unbounded"
    \/ s.kind = "Included" /\ BytesLeq(s.at[1], b)
    \/ s.kind = "Excluded" /\ BytesLess(s.at[1], b)

BelowEnd(b, e) ==
    \/ e.kind = "Unbounded"
    \/ e.kind = "Included" /\ BytesLeq(b, e.at[1])
    \/ e.kind = "Excluded" /\ BytesLess(b, e.at[1])

InByteRange(b, br) == AboveStart(b, br.start) /\ BelowEnd(b, br.end)

\* The smallest / greatest byte string of a non-empty set.
MinBytes(S) == CHOOSE b \in S : \A c \in S : BytesLeq(b, c)

MaxBytes(S) == CHOOSE b \in S : \A c \in S : BytesLeq(c, b)

\* One step of a tree.range(range) iterator: the smallest key of the range above
\* the key it yielded last, read from the tree as it is at that step.
sled_next(t, br, after) ==
    LET S == {b \in DOMAIN t :
                /\ InByteRange(b, br)
                /\ (after = None \/ BytesLess(after[1], b))}
    IN IF S = {} THEN None ELSE Some(MinBytes(S))

RECURSIVE Ascending(_)
Ascending(S) ==
    IF S = {} THEN << >>
    ELSE LET m == MinBytes(S) IN <<m>> \o Ascending(S \ {m})

\* tree.range(range) run to its end on a tree nobody changes meanwhile: the
\* keys of the range in ascending byte order.
sled_range(t, br) == Ascending({b \in DOMAIN t : InByteRange(b, br)})

\* A sled::Batch is a sequence of insert / remove entries; apply_batch applies
\* them all in one atomic step, later entries winning.
BatchInsert(b, v) == [kind |-> "insert", key |-> b, val |-> v]
BatchRemove(b) == [kind |-> "remove", key |-> b, val |-> << >>]

RECURSIVE sled_apply_batch(_, _)
sled_apply_batch(t, batch) ==
    IF batch = << >> THEN t
    ELSE LET e == Head(batch)
             t1 == IF e.kind = "insert" THEN sled_insert(t, e.key, e.val)
                   ELSE sled_remove(t, e.key)
         IN sled_apply_batch(t1, Tail(batch))

(***************************************************************************)
(* Results and error contexts.  An error context is the text built by the  *)
(* closure given to map_err_to_code: its literal part and the fields it    *)
(* renders (tree name, key space name, key, range), those left out empty.  *)
(***************************************************************************)
Msg(lit, tr, ks, key, range) ==
    [lit |-> lit, tree |-> tr, keyspace |-> ks, key |-> key, range |-> range]

NoMsg == Msg("", "", "", None, None)

Ok(v) == [ok |-> TRUE, val |-> v, code |-> "", msg |-> NoMsg]

Err(code, m) == [ok |-> FALSE, val |-> << >>, code |-> code, msg |-> m]

\* What a handler leaves behind: the tree, its result, the fsyncs it issued.
Out(t, r, n) == [tree |-> t, ret |-> r, fsyncs |-> n]

\* The points of a call at which the underlying store can fail: in the store
\* operation itself ("op"), on an item of a range iterator ("scan"), in
\* flush_async ("flush").  The failures a write can meet: its flush can fail
\* only where it flushes.
WriteFaults(flushes) == {"none", "op"} \cup (IF flushes THEN {"flush"} ELSE {})

Range(s, e) == [start |-> s, end |-> e]

FullRange == Range(Unbounded, Unbounded)

(***************************************************************************)
(* SledTree's operations, as functions of the tree t, the sync flag syn,   *)
(* the arguments and the point where the store fails.                      *)
(***************************************************************************)
\* Variant of range_message that leaves the key space name out.
range_message_without_keyspace(ks, r) == Msg("", TreeName, "", None, Some(r))

range_message(ks, r) == Msg("", TreeName, NAME(ks), None, Some(r))

WithLit(m, lit) == [m EXCEPT !.lit = lit]

\* Variant of flush_async that does not test self.sync.
flush_async_ignoring_sync(flush, syn, fault) ==
    IF flush
    THEN IF fault = "flush"
         THEN [ret |-> Err("MetaStoreDamaged", Msg("flush sled-tree", "", "", None, None)),
               fsyncs |-> 1]
         ELSE [ret |-> Ok(<< >>), fsyncs |-> 1]
    ELSE [ret |-> Ok(<< >>), fsyncs |-> 0]

flush_async(flush, syn, fault) ==
    IF flush /\ syn
    THEN IF fault = "flush"
         THEN [ret |-> Err("MetaStoreDamaged", Msg("flush sled-tree", "", "", None, None)),
               fsyncs |-> 1]
         ELSE [ret |-> Ok(<< >>), fsyncs |-> 1]
    ELSE [ret |-> Ok(<< >>), fsyncs |-> 0]

open(fault) ==
    IF fault = "op"
    THEN Err("MetaStoreDamaged", Msg("open tree: ", TreeName, "", None, None))
    ELSE Ok(<< >>)

contains_key(t, ks, k, fault) ==
    IF fault = "op"
    THEN Err("MetaStoreDamaged", Msg("contains_key: ", TreeName, "", Some(k), None))
    ELSE Ok(serialize_key(ks, k) \in DOMAIN t)

get(t, ks, k, fault) ==
    IF fault = "op"
    THEN Err("MetaStoreDamaged", Msg("get: ", TreeName, "", Some(k), None))
    ELSE LET got == sled_get(t, serialize_key(ks, k))
         IN Ok(IF got = None THEN None ELSE Some(deserialize_value(ks, got[1])))

\* Variant of last that iterates the whole tree instead of the key space's range.
last_of_whole_tree(t, ks, fault) ==
    LET it == sled_range(t, Range(Unbounded, Unbounded))
    IN IF it = << >> THEN Ok(None)
       ELSE IF fault = "scan"
            THEN Err("MetaStoreDamaged", Msg("last", "", "", None, None))
            ELSE LET b == it[Len(it)]
                 IN Ok(Some([key |-> deserialize_key(ks, b),
                             val |-> deserialize_value(ks, t[b])]))

\* Variant of last that takes the first item of the forward iteration.
last_without_rev(t, ks, fault) ==
    LET it == sled_range(t, serialize_range(ks, FullRange))
    IN IF it = << >> THEN Ok(None)
       ELSE IF fault = "scan"
            THEN Err("MetaStoreDamaged", Msg("last", "", "", None, None))
            ELSE LET b == it[1]
                 IN Ok(Some([key |-> deserialize_key(ks, b),
                             val |-> deserialize_value(ks, t[b])]))

last(t, ks, fault) ==
    LET it == sled_range(t, serialize_range(ks, FullRange))
    IN IF it = << >> THEN Ok(None)
       ELSE IF fault = "scan"
            THEN Err("MetaStoreDamaged", Msg("last", "", "", None, None))
            ELSE LET b == it[Len(it)]
                 IN Ok(Some([key |-> deserialize_key(ks, b),
                             val |-> deserialize_value(ks, t[b])]))

\* Variant of remove that always asks flush_async for a flush.
remove_always_flushing(t, syn, ks, k, flush, fault) ==
    IF fault = "op"
    THEN Out(t, Err("MetaStoreDamaged", Msg("removed: ", "", "", Some(k), None)), 0)
    ELSE LET b == serialize_key(ks, k)
             removed == sled_get(t, b)
             t1 == sled_remove(t, b)
             fl == flush_async(TRUE, syn, fault)
         IN IF ~fl.ret.ok THEN Out(t1, fl.ret, fl.fsyncs)
            ELSE Out(t1,
                     Ok(IF removed = None THEN None
                        ELSE Some(deserialize_value(ks, removed[1]))),
                     fl.fsyncs)

remove(t, syn, ks, k, flush, fault) ==
    IF fault = "op"
    THEN Out(t, Err("MetaStoreDamaged", Msg("removed: ", "", "", Some(k), None)), 0)
    ELSE LET b == serialize_key(ks, k)
             removed == sled_get(t, b)
             t1 == sled_remove(t, b)
             fl == flush_async(flush, syn, fault)
         IN IF ~fl.ret.ok THEN Out(t1, fl.ret, fl.fsyncs)
            ELSE Out(t1,
                     Ok(IF removed = None THEN None
                        ELSE Some(deserialize_value(ks, removed[1]))),
                     fl.fsyncs)

\* Variant of range_delete's scan that drops the end of the range.
range_delete_scan_without_end(t, ks, r) ==
    LET sr == serialize_range(ks, r)
        found == sled_range(t, [start |-> sr.start, end |-> Unbounded])
    IN [i \in 1 .. Len(found) |-> BatchRemove(found[i])]

\* The first half of range_delete: the batch of removals of the keys found.
range_delete_scan(t, ks, r) ==
    LET found == sled_range(t, serialize_range(ks, r))
    IN [i \in 1 .. Len(found) |-> BatchRemove(found[i])]

\* Variant of the second half that deletes what the range holds when the batch
\* is applied.
range_delete_apply_rescanning(t, syn, ks, r, batch, flush, fault) ==
    IF fault = "op"
    THEN Out(t, Err("MetaStoreDamaged", WithLit(range_message(ks, r), "batch delete: ")), 0)
    ELSE LET t1 == sled_apply_batch(t, range_delete_scan(t, ks, r))
         IN IF flush /\ syn
            THEN IF fault = "flush"
                 THEN Out(t1, Err("MetaStoreDamaged",
                                  WithLit(range_message(ks, r), "flush range delete: ")), 1)
                 ELSE Out(t1, Ok(<< >>), 1)
            ELSE Out(t1, Ok(<< >>), 0)

\* The second half: apply the batch, then flush when flush && self.sync.
range_delete_apply(t, syn, ks, r, batch, flush, fault) ==
    IF fault = "op"
    THEN Out(t, Err("MetaStoreDamaged", WithLit(range_message(ks, r), "batch delete: ")), 0)
    ELSE LET t1 == sled_apply_batch(t, batch)
         IN IF flush /\ syn
            THEN IF fault = "flush"
                 THEN Out(t1, Err("MetaStoreDamaged",
                                  WithLit(range_message(ks, r), "flush range delete: ")), 1)
                 ELSE Out(t1, Ok(<< >>), 1)
            ELSE Out(t1, Ok(<< >>), 0)

range_delete(t, syn, ks, r, flush, fault) ==
    LET batch == range_delete_scan(t, ks, r)
    IN IF fault = "scan" /\ batch # << >>
       THEN Out(t, Err("MetaStoreDamaged", WithLit(range_message(ks, r), "range_delete: ")), 0)
       ELSE range_delete_apply(t, syn, ks, r, batch, flush, fault)

range_keys(t, ks, r, fault) ==
    LET it == sled_range(t, serialize_range(ks, r))
    IN IF fault = "scan" /\ it # << >>
       THEN Err("MetaStoreDamaged", WithLit(range_message(ks, r), "range_get: "))
       ELSE Ok([i \in 1 .. Len(it) |-> deserialize_key(ks, it[i])])

\* Variant of range_get that treats an excluded end as included.
range_get_including_end(t, ks, r, fault) ==
    LET sr == serialize_range(ks, r)
        it == sled_range(t, [start |-> sr.start,
                             end |-> IF r.end.kind = "Excluded"
                                     THEN Included(sr.end.at[1]) ELSE sr.end])
    IN IF fault = "scan" /\ it # << >>
       THEN Err("MetaStoreDamaged", WithLit(range_message(ks, r), "range_get: "))
       ELSE Ok([i \in 1 .. Len(it) |-> deserialize_value(ks, t[it[i]])])

range_get(t, ks, r, fault) ==
    LET it == sled_range(t, serialize_range(ks, r))
    IN IF fault = "scan" /\ it # << >>
       THEN Err("MetaStoreDamaged", WithLit(range_message(ks, r), "range_get: "))
       ELSE Ok([i \in 1 .. Len(it) |-> deserialize_value(ks, t[it[i]])])

\* The batch append builds from its pairs.
append_batch(ks, kvs) ==
    [i \in 1 .. Len(kvs) |->
        BatchInsert(serialize_key(ks, kvs[i].key), serialize_value(ks, kvs[i].val))]

append(t, syn, ks, kvs, fault) ==
    IF fault = "op"
    THEN Out(t, Err("MetaStoreDamaged", Msg("batch append", "", "", None, None)), 0)
    ELSE LET t1 == sled_apply_batch(t, append_batch(ks, kvs))
         IN IF syn
            THEN IF fault = "flush"
                 THEN Out(t1, Err("MetaStoreDamaged",
                                  Msg("flush append", "", "", None, None)), 1)
                 ELSE Out(t1, Ok(<< >>), 1)
            ELSE Out(t1, Ok(<< >>), 0)

\* SledValueToKey::to_key: the key a value carries.
to_key(v) == IF v = "x" THEN 0 ELSE 1

\* Variant of append_values that inserts the values one by one, so that a store
\* failure after the first value leaves that value in the tree.
append_values_by_inserts(t, syn, ks, values, fault) ==
    LET kvs == [i \in 1 .. Len(values) |-> [key |-> to_key(values[i]), val |-> values[i]]]
    IN IF fault = "op"
       THEN Out(sled_apply_batch(t, SubSeq(append_batch(ks, kvs), 1,
                                           IF kvs = << >> THEN 0 ELSE 1)),
                Err("MetaStoreDamaged", Msg("batch append_values", "", "", None, None)), 0)
       ELSE LET t1 == sled_apply_batch(t, append_batch(ks, kvs))
            IN IF syn
               THEN IF fault = "flush"
                    THEN Out(t1, Err("MetaStoreDamaged",
                                     Msg("flush append_values", "", "", None, None)), 1)
                    ELSE Out(t1, Ok(<< >>), 1)
               ELSE Out(t1, Ok(<< >>), 0)

append_values(t, syn, ks, values, fault) ==
    IF fault = "op"
    THEN Out(t, Err("MetaStoreDamaged", Msg("batch append_values", "", "", None, None)), 0)
    ELSE LET kvs == [i \in 1 .. Len(values) |-> [key |-> to_key(values[i]), val |-> values[i]]]
             t1 == sled_apply_batch(t, append_batch(ks, kvs))
         IN IF syn
            THEN IF fault = "flush"
                 THEN Out(t1, Err("MetaStoreDamaged",
                                  Msg("flush append_values", "", "", None, None)), 1)
                 ELSE Out(t1, Ok(<< >>), 1)
            ELSE Out(t1, Ok(<< >>), 0)

\* Variant of insert that keeps the value a key already has.
insert_if_absent(t, syn, ks, k, v, fault) ==
    IF fault = "op"
    THEN Out(t, Err("MetaStoreDamaged", Msg("insert_value ", "", "", Some(k), None)), 0)
    ELSE LET b == serialize_key(ks, k)
             prev == sled_get(t, b)
             t1 == IF prev = None THEN sled_insert(t, b, serialize_value(ks, v)) ELSE t
             res == IF prev = None THEN None ELSE Some(deserialize_value(ks, prev[1]))
         IN IF syn
            THEN IF fault = "flush"
                 THEN Out(t1, Err("MetaStoreDamaged",
                                  Msg("flush insert_value ", "", "", Some(k), None)), 1)
                 ELSE Out(t1, Ok(res), 1)
            ELSE Out(t1, Ok(res), 0)

insert(t, syn, ks, k, v, fault) ==
    IF fault = "op"
    THEN Out(t, Err("MetaStoreDamaged", Msg("insert_value ", "", "", Some(k), None)), 0)
    ELSE LET b == serialize_key(ks, k)
             prev == sled_get(t, b)
             t1 == sled_insert(t, b, serialize_value(ks, v))
             res == IF prev = None THEN None ELSE Some(deserialize_value(ks, prev[1]))
         IN IF syn
            THEN IF fault = "flush"
                 THEN Out(t1, Err("MetaStoreDamaged",
                                  Msg("flush insert_value ", "", "", Some(k), None)), 1)
                 ELSE Out(t1, Ok(res), 1)
            ELSE Out(t1, Ok(res), 0)

insert_value(t, syn, ks, v, fault) == insert(t, syn, ks, to_key(v), v, fault)

(***************************************************************************)
(* The inputs the callers draw from.                                       *)
(***************************************************************************)
BoundsOf(K) == {Unbounded} \cup {Included(k) : k \in K} \cup {Excluded(k) : k \in K}

RangesOf(ks) == {Range(s, e) : s \in BoundsOf(KeysOf(ks)), e \in BoundsOf(KeysOf(ks))}

SeqsUpTo(S, n) == UNION {[1 .. m -> S] : m \in 0 .. n}

PairsOf(ks) == [key : KeysOf(ks), val : Vals]

Call(op, ks, key, val, range, kvs, flush, fault) ==
    [op |-> op, ks |-> ks, key |-> key, val |-> val, range |-> range, kvs |-> kvs,
     flush |-> flush, fault |-> fault]

NoCall == Call("", "", None, None, None, << >>, FALSE, "none")

NoRet == Ok(<< >>)

NoSeen == [n |-> 0, pre |-> EmptyTree]

NoBuild == [ok |-> TRUE, val |-> << >>, code |-> ""]

(***************************************************************************)
(* The single caller: it opens the tree, then issues one call at a time;   *)
(* a call runs to completion (pc = "done", its result in ret) and the      *)
(* caller takes the result (Return) before it issues the next one.         *)
(***************************************************************************)
\* No session.
SessIdle ==
    /\ mutable_state = << >>
    /\ lock = 0
    /\ callers = << >>
    /\ chans = << >>
    /\ contexts = << >>
    /\ ncalls = 0

\* No session manager.
RefIdle ==
    /\ table = {}
    /\ refs = << >>
    /\ handles = 0
    /\ destroyed = << >>

\* No configuration.
CfgIdle ==
    /\ config = << >>
    /\ shown = None
    /\ cpc = "none"

MoreIdle == SessIdle /\ RefIdle /\ CfgIdle

\* No concurrent reader, no range_delete under way.
ConcIdle ==
    /\ rd_batch = << >>
    /\ rpc = "idle"
    /\ rcall = NoCall
    /\ rret = NoRet
    /\ items = << >>
    /\ seen = NoSeen

\* No second builder.
NoTwin ==
    [ctx |-> [max_threads |-> 0, partitions |-> None], bpc |-> "none", at |-> 0,
     limit |-> None, pipeline |-> << >>, bret |-> NoBuild]

TwinIdle ==
    /\ twin = NoTwin
    /\ replies = << >>

\* No build.
PipeIdle ==
    /\ TwinIdle
    /\ plan = << >>
    /\ ctx = [max_threads |-> 0, partitions |-> None]
    /\ bpc = "none"
    /\ at = 0
    /\ limit = None
    /\ pipeline = << >>
    /\ bret = NoBuild
    /\ scheduled = 0

TreeInit ==
    /\ pc = "closed"
    /\ sync = FALSE
    /\ tree = EmptyTree
    /\ fsync_calls = 0
    /\ call = NoCall
    /\ ret = NoRet
    /\ pre = EmptyTree
    /\ ConcIdle
    /\ PipeIdle
    /\ MoreIdle

\* The call c has run on the tree and left o behind.
Returned(c, o) ==
    /\ pc' = "done"
    /\ call' = c
    /\ ret' = o.ret
    /\ tree' = o.tree
    /\ fsync_calls' = o.fsyncs
    /\ pre' = tree
    /\ UNCHANGED <<sync, concVars, pipeVars, otherVars>>

OpenCall ==
    /\ pc = "closed"
    /\ \E s \in BOOLEAN, fault \in {"none", "op"} :
        LET r == open(fault)
        IN /\ pc' = IF r.ok THEN "done" ELSE "closed"
           /\ sync' = IF r.ok THEN s ELSE sync
           /\ call' = Call("open", "", None, None, None, << >>, FALSE, fault)
           /\ ret' = r
           /\ UNCHANGED <<tree, fsync_calls, pre, concVars, pipeVars, otherVars>>

Return ==
    /\ pc = "done"
    /\ pc' = "idle"
    /\ call' = NoCall
    /\ ret' = NoRet
    /\ pre' = EmptyTree
    /\ fsync_calls' = 0
    /\ UNCHANGED <<sync, tree, concVars, pipeVars, otherVars>>

ContainsKeyCall ==
    /\ pc = "idle"
    /\ \E ks \in KeySpaces : \E k \in KeysOf(ks), fault \in {"none", "op"} :
        Returned(Call("contains_key", ks, Some(k), None, None, << >>, FALSE, fault),
                 Out(tree, contains_key(tree, ks, k, fault), 0))

GetCall ==
    /\ pc = "idle"
    /\ \E ks \in KeySpaces : \E k \in KeysOf(ks), fault \in {"none", "op"} :
        Returned(Call("get", ks, Some(k), None, None, << >>, FALSE, fault),
                 Out(tree, get(tree, ks, k, fault), 0))

LastCall ==
    /\ pc = "idle"
    /\ \E ks \in KeySpaces : \E fault \in {"none", "scan"} :
        Returned(Call("last", ks, None, None, None, << >>, FALSE, fault),
                 Out(tree, last(tree, ks, fault), 0))

RemoveCall ==
    /\ pc = "idle"
    /\ \E ks \in KeySpaces : \E k \in KeysOf(ks), flush \in BOOLEAN :
       \E fault \in WriteFaults(flush /\ sync) :
        Returned(Call("remove", ks, Some(k), None, None, << >>, flush, fault),
                 remove(tree, sync, ks, k, flush, fault))

RangeDeleteCall ==
    /\ pc = "idle"
    /\ \E ks \in KeySpaces : \E r \in RangesOf(ks), flush \in BOOLEAN :
       \E fault \in WriteFaults(flush /\ sync) \cup {"scan"} :
        Returned(Call("range_delete", ks, None, None, Some(r), << >>, flush, fault),
                 range_delete(tree, sync, ks, r, flush, fault))

RangeKeysCall ==
    /\ pc = "idle"
    /\ \E ks \in KeySpaces : \E r \in RangesOf(ks), fault \in {"none", "scan"} :
        Returned(Call("range_keys", ks, None, None, Some(r), << >>, FALSE, fault),
                 Out(tree, range_keys(tree, ks, r, fault), 0))

RangeGetCall ==
    /\ pc = "idle"
    /\ \E ks \in KeySpaces : \E r \in RangesOf(ks), fault \in {"none", "scan"} :
        Returned(Call("range_get", ks, None, None, Some(r), << >>, FALSE, fault),
                 Out(tree, range_get(tree, ks, r, fault), 0))

AppendCall ==
    /\ pc = "idle"
    /\ \E ks \in KeySpaces : \E kvs \in SeqsUpTo(PairsOf(ks), MaxBatch), fault \in WriteFaults(sync) :
        Returned(Call("append", ks, None, None, None, kvs, FALSE, fault),
                 append(tree, sync, ks, kvs, fault))

AppendValuesCall ==
    /\ pc = "idle"
    /\ \E ks \in KeySpaces : \E values \in SeqsUpTo(Vals, MaxBatch), fault \in WriteFaults(sync) :
        Returned(Call("append_values", ks, None, None, None, values, FALSE, fault),
                 append_values(tree, sync, ks, values, fault))

InsertCall ==
    /\ pc = "idle"
    /\ \E ks \in KeySpaces : \E k \in KeysOf(ks), v \in Vals, fault \in WriteFaults(sync) :
        Returned(Call("insert", ks, Some(k), Some(v), None, << >>, FALSE, fault),
                 insert(tree, sync, ks, k, v, fault))

InsertValueCall ==
    /\ pc = "idle"
    /\ \E ks \in KeySpaces : \E v \in Vals, fault \in WriteFaults(sync) :
        Returned(Call("insert_value", ks, None, Some(v), None, << >>, FALSE, fault),
                 insert_value(tree, sync, ks, v, fault))

Init == TreeInit

Next ==
    \/ OpenCall
    \/ Return
    \/ ContainsKeyCall
    \/ GetCall
    \/ LastCall
    \/ RemoveCall
    \/ RangeDeleteCall
    \/ RangeKeysCall
    \/ RangeGetCall
    \/ AppendCall
    \/ AppendValuesCall
    \/ InsertCall
    \/ InsertValueCall

Spec == Init /\ [][Next]_vars

(***************************************************************************)
(* The codec of a key space can fail: KV::serialize_key,                   *)
(* KV::serialize_value and KV::deserialize_value return a Result that the  *)
(* methods of SledTree propagate with `?`.  A call that meets such a       *)
(* failure has fault "ser" (a serialization fails) or "de" (the            *)
(* deserialization of a value read from the tree fails); in append and     *)
(* append_values `bad` is the position of the pair whose serialization     *)
(* fails.  Without such a failure the methods are the ones above.          *)
(***************************************************************************)
CodecError == Err("MetaDecode", NoMsg)

\* The loop of append and append_values with its batch: it ends at the first
\* pair whose key or value does not serialize (bad, 0 for none).
serialize_loop(ks, kvs, bad) ==
    IF bad \in 1 .. Len(kvs)
    THEN [ok |-> FALSE, batch |-> append_batch(ks, SubSeq(kvs, 1, bad - 1))]
    ELSE [ok |-> TRUE, batch |-> append_batch(ks, kvs)]

\* Variant of append that applies what the loop has built when the loop fails.
try_append_applying_prefix(t, syn, ks, kvs, fault, bad) ==
    LET l == serialize_loop(ks, kvs, bad)
    IN IF ~l.ok THEN Out(sled_apply_batch(t, l.batch), CodecError, 0)
       ELSE append(t, syn, ks, kvs, fault)

\* SledTree::append
try_append(t, syn, ks, kvs, fault, bad) ==
    LET l == serialize_loop(ks, kvs, bad)
    IN IF ~l.ok THEN Out(t, CodecError, 0)
       ELSE append(t, syn, ks, kvs, fault)

\* SledTree::append_values
try_append_values(t, syn, ks, values, fault, bad) ==
    LET kvs == [i \in 1 .. Len(values) |-> [key |-> to_key(values[i]), val |-> values[i]]]
        l == serialize_loop(ks, kvs, bad)
    IN IF ~l.ok THEN Out(t, CodecError, 0)
       ELSE append_values(t, syn, ks, values, fault)

\* Variant of remove that deserializes the value before it removes the key.
try_remove_decoding_first(t, syn, ks, k, flush, fault) ==
    IF fault \in {"ser", "de"} THEN Out(t, CodecError, 0)
    ELSE remove(t, syn, ks, k, flush, fault)

\* SledTree::remove: serialize_key, tree.remove, flush_async, deserialize_value.
try_remove(t, syn, ks, k, flush, fault) ==
    IF fault = "ser" THEN Out(t, CodecError, 0)
    ELSE IF fault = "de"
         THEN LET b == serialize_key(ks, k)
                  removed == sled_get(t, b)
                  t1 == sled_remove(t, b)
                  fl == flush_async(flush, syn, fault)
              IN IF removed = None THEN Out(t1, Ok(None), fl.fsyncs)
                 ELSE Out(t1, CodecError, fl.fsyncs)
         ELSE remove(t, syn, ks, k, flush, fault)

\* SledTree::insert: serialize_key, serialize_value, tree.insert,
\* deserialize_value of the previous value, flush.
try_insert(t, syn, ks, k, v, fault) ==
    IF fault = "ser" THEN Out(t, CodecError, 0)
    ELSE IF fault = "de"
         THEN LET b == serialize_key(ks, k)
                  prev == sled_get(t, b)
                  t1 == sled_insert(t, b, serialize_value(ks, v))
              IN IF prev = None THEN insert(t, syn, ks, k, v, "none")
                 ELSE Out(t1, CodecError, 0)
         ELSE insert(t, syn, ks, k, v, fault)

\* The failures a write can meet, those of the codec included: a value is
\* deserialized only if the key has one.
CodecFaults(flushes, reads) ==
    WriteFaults(flushes) \cup {"ser"} \cup (IF reads THEN {"de"} ELSE {})

TryAppendCall ==
    /\ pc = "idle"
    /\ \E ks \in KeySpaces : \E kvs \in SeqsUpTo(PairsOf(ks), MaxBatch) :
       \E fault \in CodecFaults(sync, FALSE) :
       \E bad \in IF fault = "ser" THEN 1 .. Len(kvs) ELSE {0} :
        Returned(Call("append", ks, None, None, None, kvs, FALSE, fault) @@ [bad |-> bad],
                 try_append(tree, sync, ks, kvs, fault, bad))

TryAppendValuesCall ==
    /\ pc = "idle"
    /\ \E ks \in KeySpaces : \E values \in SeqsUpTo(Vals, MaxBatch) :
       \E fault \in CodecFaults(sync, FALSE) :
       \E bad \in IF fault = "ser" THEN 1 .. Len(values) ELSE {0} :
        Returned(Call("append_values", ks, None, None, None, values, FALSE, fault)
                     @@ [bad |-> bad],
                 try_append_values(tree, sync, ks, values, fault, bad))

TryRemoveCall ==
    /\ pc = "idle"
    /\ \E ks \in KeySpaces : \E k \in KeysOf(ks), flush \in BOOLEAN :
       \E fault \in CodecFaults(flush /\ sync, serialize_key(ks, k) \in DOMAIN tree) :
        Returned(Call("remove", ks, Some(k), None, None, << >>, flush, fault),
                 try_remove(tree, sync, ks, k, flush, fault))

TryInsertCall ==
    /\ pc = "idle"
    /\ \E ks \in KeySpaces : \E k \in KeysOf(ks), v \in Vals :
       \E fault \in CodecFaults(sync, serialize_key(ks, k) \in DOMAIN tree) :
        Returned(Call("insert", ks, Some(k), Some(v), None, << >>, FALSE, fault),
                 try_insert(tree, sync, ks, k, v, fault))

CodecNext ==
    \/ OpenCall
    \/ Return
    \/ TryAppendCall
    \/ TryAppendValuesCall
    \/ TryRemoveCall
    \/ TryInsertCall

SpecCodec == TreeInit /\ [][CodecNext]_vars

(***************************************************************************)
(* Concurrent callers of one open tree (SledTree is shared by reference;   *)
(* every method takes &self).  One caller issues the batched mutations:    *)
(* append and append_values are one apply_batch each, range_delete scans   *)
(* the range and then applies its batch in a second step.  Other callers   *)
(* insert and remove single keys.  A reader issues get, contains_key and   *)
(* last, one store call each, and range_keys and range_get, which pull a   *)
(* tree.range iterator item by item from the tree as it is at each pull.   *)
(* The callers work in the key space ConcSpace.                            *)
(***************************************************************************)
ConcSpace == "B"

ConcRanges == RangesOf(ConcSpace)

\* The batches of append: pairs in ascending key order, as a log is appended.
ConcBatches ==
    {kvs \in SeqsUpTo(PairsOf(ConcSpace), MaxBatch) :
        \A i \in 1 .. Len(kvs) - 1 : kvs[i].key < kvs[i + 1].key}

ConcInit ==
    /\ pc = "idle"
    /\ sync = FALSE
    /\ tree = EmptyTree
    /\ fsync_calls = 0
    /\ call = NoCall
    /\ ret = NoRet
    /\ pre = EmptyTree
    /\ ConcIdle
    /\ PipeIdle
    /\ MoreIdle

\* The tree becomes t2; isBatch tells whether a batch does it.
Changes(t2, isBatch) ==
    /\ tree' = t2
    /\ seen' = IF rpc = "scanning" /\ t2 # tree
               THEN IF isBatch /\ seen.n = 0
                    THEN [n |-> 1, pre |-> tree]
                    ELSE [n |-> 2, pre |-> EmptyTree]
               ELSE seen

AppendStep(kvs, fault) ==
    /\ pc = "idle"
    /\ Changes(append(tree, sync, ConcSpace, kvs, fault).tree, TRUE)
    /\ UNCHANGED <<pc, sync, fsync_calls, call, ret, pre, rd_batch, rpc, rcall, rret, items,
                   pipeVars, otherVars>>

ConcAppend == \E kvs \in ConcBatches, fault \in {"none", "op"} : AppendStep(kvs, fault)

AppendValuesStep(values, fault) ==
    /\ pc = "idle"
    /\ Changes(append_values(tree, sync, ConcSpace, values, fault).tree, TRUE)
    /\ UNCHANGED <<pc, sync, fsync_calls, call, ret, pre, rd_batch, rpc, rcall, rret, items,
                   pipeVars, otherVars>>

ConcAppendValues ==
    \E values \in SeqsUpTo(Vals, MaxBatch), fault \in {"none", "op"} :
        AppendValuesStep(values, fault)

\* range_delete up to the end of its scan loop.
ConcRangeDeleteScan ==
    /\ pc = "idle"
    /\ \E r \in ConcRanges :
        /\ pc' = "scanned"
        /\ call' = Call("range_delete", ConcSpace, None, None, Some(r), << >>, FALSE, "none")
        /\ rd_batch' = range_delete_scan(tree, ConcSpace, r)
    /\ UNCHANGED <<sync, tree, fsync_calls, ret, pre, rpc, rcall, rret, items, seen, pipeVars, otherVars>>

\* range_delete from apply_batch to its return.
ConcRangeDeleteApply ==
    /\ pc = "scanned"
    /\ \E fault \in {"none", "op"} :
        Changes(range_delete_apply(tree, sync, call.ks, call.range[1], rd_batch,
                                   call.flush, fault).tree, TRUE)
    /\ pc' = "idle"
    /\ call' = NoCall
    /\ rd_batch' = << >>
    /\ UNCHANGED <<sync, fsync_calls, ret, pre, rpc, rcall, rret, items, pipeVars, otherVars>>

OtherInsert ==
    /\ \E k \in KeysOf(ConcSpace), v \in Vals :
        Changes(insert(tree, sync, ConcSpace, k, v, "none").tree, FALSE)
    /\ UNCHANGED <<pc, sync, fsync_calls, call, ret, pre, rd_batch, rpc, rcall, rret, items,
                   pipeVars, otherVars>>

OtherRemove ==
    /\ \E k \in KeysOf(ConcSpace) :
        Changes(remove(tree, sync, ConcSpace, k, FALSE, "none").tree, FALSE)
    /\ UNCHANGED <<pc, sync, fsync_calls, call, ret, pre, rd_batch, rpc, rcall, rret, items,
                   pipeVars, otherVars>>

\* get, contains_key, last: one call of the store.
ReadPoint ==
    /\ rpc = "idle"
    /\ \/ \E k \in KeysOf(ConcSpace) :
            /\ rcall' = Call("get", ConcSpace, Some(k), None, None, << >>, FALSE, "none")
            /\ rret' = get(tree, ConcSpace, k, "none")
       \/ \E k \in KeysOf(ConcSpace) :
            /\ rcall' = Call("contains_key", ConcSpace, Some(k), None, None, << >>, FALSE,
                             "none")
            /\ rret' = contains_key(tree, ConcSpace, k, "none")
       \/ /\ rcall' = Call("last", ConcSpace, None, None, None, << >>, FALSE, "none")
          /\ rret' = last(tree, ConcSpace, "none")
    /\ rpc' = "done"
    /\ UNCHANGED <<treeVars, rd_batch, items, seen, pipeVars, otherVars>>

\* range_keys / range_get over the whole key space create their iterator.
ReadRangeStart ==
    /\ rpc = "idle"
    /\ \E op \in {"range_keys", "range_get"} :
        rcall' = Call(op, ConcSpace, None, None, Some(FullRange), << >>, FALSE, "none")
    /\ rpc' = "scanning"
    /\ items' = << >>
    /\ seen' = NoSeen
    /\ UNCHANGED <<treeVars, rd_batch, rret, pipeVars, otherVars>>

\* What the loop of range_keys / range_get has pushed for the items yielded.
range_result(c, its) ==
    IF c.op = "range_keys"
    THEN [i \in 1 .. Len(its) |-> deserialize_key(c.ks, its[i].key)]
    ELSE [i \in 1 .. Len(its) |-> deserialize_value(c.ks, its[i].val)]

\* One turn of the loop: the iterator yields its next item, or ends and the
\* call returns.
ReadRangeNext ==
    /\ rpc = "scanning"
    /\ LET n == sled_next(tree, serialize_range(rcall.ks, rcall.range[1]),
                          IF items = << >> THEN None ELSE Some(items[Len(items)].key))
       IN IF n # None
          THEN /\ items' = Append(items, [key |-> n[1], val |-> tree[n[1]]])
               /\ UNCHANGED <<rpc, rret, seen>>
          ELSE /\ rpc' = "done"
               /\ rret' = Ok(range_result(rcall, items))
               /\ items' = << >>
               /\ seen' = NoSeen
    /\ UNCHANGED <<treeVars, rd_batch, rcall, pipeVars, otherVars>>

ReadReturn ==
    /\ rpc = "done"
    /\ rpc' = "idle"
    /\ rcall' = NoCall
    /\ rret' = NoRet
    /\ UNCHANGED <<treeVars, rd_batch, items, seen, pipeVars, otherVars>>

ConcNext ==
    \/ ConcAppend
    \/ ConcAppendValues
    \/ ConcRangeDeleteScan
    \/ ConcRangeDeleteApply
    \/ OtherInsert
    \/ OtherRemove
    \/ ReadPoint
    \/ ReadRangeStart
    \/ ReadRangeNext
    \/ ReadReturn

SpecConc == ConcInit /\ [][ConcNext]_vars

(***************************************************************************)
(* The plan.  Every node has at most one input, so a plan is the sequence  *)
(* of its nodes from the root to the leaf.  A node carries what build      *)
(* reads of it: its kind, n (Limit), whether group_expr is non-empty       *)
(* (AggregatorPartial, AggregatorFinal), the number of its partitions      *)
(* (ReadSource).  Explain and Scan stand for the kinds build has no arm    *)
(* for.                                                                    *)
(***************************************************************************)
Node(kind, n, grouped, parts) ==
    [kind |-> kind, n |-> n, grouped |-> grouped, parts |-> parts]

InnerNodes ==
    {Node(k, 0, FALSE, 0) : k \in {"Select", "Stage", "Projection", "Filter", "Sort", "Explain"}}
    \cup {Node(k, 0, g, 0) : k \in {"AggregatorPartial", "AggregatorFinal"}, g \in BOOLEAN}
    \cup {Node("Limit", n, FALSE, 0) : n \in 1 .. MaxLimit}

LeafNodes(P) == {Node("ReadSource", 0, FALSE, np) : np \in P} \cup {Node("Scan", 0, FALSE, 0)}

PlansOf(depth, P) ==
    {inner \o <<leaf>> : inner \in SeqsUpTo(InnerNodes, depth), leaf \in LeafNodes(P)}

(***************************************************************************)
(* Pipeline (its file is not among the sources): an ordered sequence of    *)
(* pipes, each the sequence of its processors.  A processor is the         *)
(* transform's name with the limit and the executor it was created with.   *)
(***************************************************************************)
Processor(name, lim, executor) == [name |-> name, limit |-> lim, executor |-> executor]

POk(v) == [ok |-> TRUE, val |-> v, code |-> ""]

PErr(code) == [ok |-> FALSE, val |-> << >>, code |-> code]

Pipeline_create == << >>

reset(p) == << >>

nums(pipe) == Len(pipe)

last_pipe(p) ==
    IF p = << >> THEN PErr("IllegalPipelineState") ELSE POk(p[Len(p)])

add_source(p, proc) ==
    IF p = << >> THEN POk(<< <<proc>> >>) ELSE POk([p EXCEPT ![1] = Append(@, proc)])

add_simple_transform(p, proc) ==
    LET l == last_pipe(p)
    IN IF ~l.ok THEN l
       ELSE POk(Append(p, [i \in 1 .. nums(l.val) |-> proc]))

merge_processor(p) ==
    LET l == last_pipe(p)
    IN IF ~l.ok THEN l
       ELSE IF nums(l.val) > 1
            THEN POk(Append(p, <<Processor("MergeProcessor", None, 0)>>))
            ELSE POk(p)

(***************************************************************************)
(* PipelineBuilder::build.                                                 *)
(***************************************************************************)
\* Variant of the closure of the preorder walk that keeps the first n it finds.
limit_closure_keeping_first(lim, node) ==
    IF node.kind = "Limit"
    THEN [limit |-> IF lim = None THEN Some(node.n) ELSE lim, cont |-> TRUE]
    ELSE [limit |-> lim, cont |-> TRUE]

\* The closure given to walk_preorder: the new value of limit, and what the
\* closure returns.
limit_closure(lim, node) ==
    IF node.kind = "Limit"
    THEN [limit |-> Some(node.n), cont |-> TRUE]
    ELSE [limit |-> lim, cont |-> TRUE]

\* walk_preorder with that closure: every node before its input, until the
\* closure returns false.
RECURSIVE walk_preorder(_, _)
walk_preorder(nodes, lim) ==
    IF nodes = << >> THEN lim
    ELSE LET r == limit_closure(lim, Head(nodes))
         IN IF r.cont THEN walk_preorder(Tail(nodes), r.limit) ELSE r.limit

\* What a visit leaves: the pipeline, the context, and what the closure returns.
Visit(r, c, cont) ==
    [ok |-> r.ok, pipeline |-> r.val, code |-> r.code, ctx |-> c, cont |-> cont]

\* The loops that add one source after the other.
RECURSIVE add_sources(_, _)
add_sources(p, procs) ==
    IF procs = << >> THEN POk(p)
    ELSE LET r == add_source(p, Head(procs))
         IN IF ~r.ok THEN r ELSE add_sources(r.val, Tail(procs))

\* Variant that adds the remote sources without resetting the pipeline.
visit_stage_plan_without_reset(p, c, executors) ==
    IF executors # 0
    THEN Visit(add_sources(p, [i \in 1 .. executors |-> Processor("RemoteTransform", None, i)]),
               [c EXCEPT !.partitions = None], TRUE)
    ELSE Visit(POk(p), c, TRUE)

\* executors: the number of (address, plan) pairs reschedule returned.
visit_stage_plan(p, c, executors) ==
    IF executors # 0
    THEN Visit(add_sources(reset(p),
                           [i \in 1 .. executors |-> Processor("RemoteTransform", None, i)]),
               [c EXCEPT !.partitions = None], TRUE)
    ELSE Visit(POk(p), c, TRUE)

visit_projection_plan(p, c, node) ==
    Visit(add_simple_transform(p, Processor("ProjectionTransform", None, 0)), c, TRUE)

visit_aggregator_partial_plan(p, c, node) ==
    IF ~node.grouped
    THEN Visit(add_simple_transform(p, Processor("AggregatorPartialTransform", None, 0)),
               c, TRUE)
    ELSE Visit(add_simple_transform(p, Processor("GroupByPartialTransform", None, 0)),
               c, TRUE)

visit_aggregator_final_plan(p, c, node) ==
    LET m == merge_processor(p)
    IN IF ~m.ok THEN Visit(m, c, TRUE)
       ELSE IF ~node.grouped
            THEN Visit(add_simple_transform(m.val,
                                            Processor("AggregatorFinalTransform", None, 0)),
                       c, TRUE)
            ELSE Visit(add_simple_transform(m.val,
                                            Processor("GroupByFinalTransform", None, 0)),
                       c, TRUE)

visit_filter_plan(p, c, node) ==
    Visit(add_simple_transform(p, Processor("FilterTransform", None, 0)), c, TRUE)

\* Variant that merges and adds the final SortMergeTransform whatever the width.
visit_sort_plan_always_merging(lim, p, c, node) ==
    LET r1 == add_simple_transform(p, Processor("SortPartialTransform", lim, 0))
        r2 == IF ~r1.ok THEN r1
              ELSE add_simple_transform(r1.val, Processor("SortMergeTransform", lim, 0))
        r3 == IF ~r2.ok THEN r2
              ELSE LET m == merge_processor(r2.val)
                   IN IF ~m.ok THEN m
                      ELSE add_simple_transform(m.val,
                                                Processor("SortMergeTransform", lim, 0))
    IN Visit(r3, c, TRUE)

\* Variant that creates the SortPartialTransform without the limit.
visit_sort_plan_partial_without_limit(lim, p, c, node) ==
    LET r1 == add_simple_transform(p, Processor("SortPartialTransform", None, 0))
        r2 == IF ~r1.ok THEN r1
              ELSE add_simple_transform(r1.val, Processor("SortMergeTransform", lim, 0))
        r3 == IF ~r2.ok THEN r2
              ELSE IF nums(last_pipe(r2.val).val) > 1
                   THEN LET m == merge_processor(r2.val)
                        IN IF ~m.ok THEN m
                           ELSE add_simple_transform(m.val,
                                                     Processor("SortMergeTransform", lim, 0))
                   ELSE r2
    IN Visit(r3, c, TRUE)

\* Variant that creates the final SortMergeTransform without the limit.
visit_sort_plan_final_without_limit(lim, p, c, node) ==
    LET r1 == add_simple_transform(p, Processor("SortPartialTransform", lim, 0))
        r2 == IF ~r1.ok THEN r1
              ELSE add_simple_transform(r1.val, Processor("SortMergeTransform", lim, 0))
        r3 == IF ~r2.ok THEN r2
              ELSE IF nums(last_pipe(r2.val).val) > 1
                   THEN LET m == merge_processor(r2.val)
                        IN IF ~m.ok THEN m
                           ELSE add_simple_transform(m.val,
                                                     Processor("SortMergeTransform", None, 0))
                   ELSE r2
    IN Visit(r3, c, TRUE)

visit_sort_plan(lim, p, c, node) ==
    LET r1 == add_simple_transform(p, Processor("SortPartialTransform", lim, 0))
        r2 == IF ~r1.ok THEN r1
              ELSE add_simple_transform(r1.val, Processor("SortMergeTransform", lim, 0))
        r3 == IF ~r2.ok THEN r2
              ELSE IF nums(last_pipe(r2.val).val) > 1
                   THEN LET m == merge_processor(r2.val)
                        IN IF ~m.ok THEN m
                           ELSE add_simple_transform(m.val,
                                                     Processor("SortMergeTransform", lim, 0))
                   ELSE r2
    IN Visit(r3, c, TRUE)

\* Variant that adds the LimitTransform without merging first.
visit_limit_plan_without_merge(p, c, node) ==
    Visit(add_simple_transform(p, Processor("LimitTransform", Some(node.n), 0)), c, FALSE)

visit_limit_plan(p, c, node) ==
    LET m == merge_processor(p)
    IN IF ~m.ok THEN Visit(m, c, FALSE)
       ELSE Visit(add_simple_transform(m.val, Processor("LimitTransform", Some(node.n), 0)),
                  c, FALSE)

\* Variant that sizes the sources by the partitions bound to the context
\* before the call.
visit_read_data_source_plan_by_bound_partitions(p, c, node) ==
    LET max_threads == c.max_threads
        len == IF c.partitions = None THEN node.parts ELSE c.partitions[1]
        workers == IF max_threads = 0 THEN 1
                   ELSE IF max_threads > len THEN len
                        ELSE max_threads
    IN Visit(add_sources(p, [i \in 1 .. workers |-> Processor("SourceTransform", None, 0)]),
             [c EXCEPT !.partitions = Some(node.parts)], TRUE)

visit_read_data_source_plan(p, c, node) ==
    LET max_threads == c.max_threads
        workers == IF max_threads = 0 THEN 1
                   ELSE IF max_threads > node.parts THEN node.parts
                        ELSE max_threads
    IN Visit(add_sources(p, [i \in 1 .. workers |-> Processor("SourceTransform", None, 0)]),
             [c EXCEPT !.partitions = Some(node.parts)], TRUE)

\* The tree is not opened and has no callers.
TreeIdle ==
    /\ pc = "closed"
    /\ sync = FALSE
    /\ tree = EmptyTree
    /\ fsync_calls = 0
    /\ call = NoCall
    /\ ret = NoRet
    /\ pre = EmptyTree
    /\ ConcIdle

\* A builder created for one of the plans P on a context with max_threads in T.
PipeInitOf(P, T) ==
    /\ plan \in P
    /\ ctx \in [max_threads : T, partitions : {None}]
    /\ bpc = "start"
    /\ at = 0
    /\ limit = None
    /\ pipeline = << >>
    /\ bret = NoBuild
    /\ scheduled = 0
    /\ TreeIdle

\* build up to its call of walk_postorder: the preorder walk that sets limit,
\* and Pipeline::create.
BuildStart ==
    /\ bpc = "start"
    /\ limit' = walk_preorder(plan, None)
    /\ pipeline' = Pipeline_create
    /\ bpc' = "walk"
    /\ at' = Len(plan)
    /\ UNCHANGED <<plan, ctx, bret, scheduled, treeVars, concVars, otherVars>>

\* walk_postorder has called the closure on plan[at] and the visit left v: an
\* error ends build, false ends the walk, and after the walk build returns
\* the pipeline.
Visited(v) ==
    /\ ctx' = v.ctx
    /\ IF ~v.ok
       THEN /\ bpc' = "done"
            /\ bret' = PErr(v.code)
            /\ UNCHANGED <<pipeline, at>>
       ELSE /\ pipeline' = v.pipeline
            /\ IF v.cont /\ at > 1
               THEN /\ at' = at - 1
                    /\ UNCHANGED <<bpc, bret>>
               ELSE /\ bpc' = "done"
                    /\ bret' = POk(v.pipeline)
                    /\ UNCHANGED at
    /\ UNCHANGED <<plan, limit, treeVars, concVars, otherVars>>

Visiting(kind) == bpc = "walk" /\ plan[at].kind = kind

VisitSelect ==
    /\ Visiting("Select")
    /\ Visited(Visit(POk(pipeline), ctx, TRUE))
    /\ UNCHANGED scheduled

VisitStage ==
    /\ Visiting("Stage")
    /\ \E executors \in 0 .. MaxExecutors :
          /\ scheduled' = executors
          /\ Visited(visit_stage_plan(pipeline, ctx, executors))

VisitProjection ==
    /\ Visiting("Projection")
    /\ Visited(visit_projection_plan(pipeline, ctx, plan[at]))
    /\ UNCHANGED scheduled

VisitAggregatorPartial ==
    /\ Visiting("AggregatorPartial")
    /\ Visited(visit_aggregator_partial_plan(pipeline, ctx, plan[at]))
    /\ UNCHANGED scheduled

VisitAggregatorFinal ==
    /\ Visiting("AggregatorFinal")
    /\ Visited(visit_aggregator_final_plan(pipeline, ctx, plan[at]))
    /\ UNCHANGED scheduled

VisitFilter ==
    /\ Visiting("Filter")
    /\ Visited(visit_filter_plan(pipeline, ctx, plan[at]))
    /\ UNCHANGED scheduled

VisitSort ==
    /\ Visiting("Sort")
    /\ Visited(visit_sort_plan(limit, pipeline, ctx, plan[at]))
    /\ UNCHANGED scheduled

VisitLimit ==
    /\ Visiting("Limit")
    /\ Visited(visit_limit_plan(pipeline, ctx, plan[at]))
    /\ UNCHANGED scheduled

VisitReadSource ==
    /\ Visiting("ReadSource")
    /\ Visited(visit_read_data_source_plan(pipeline, ctx, plan[at]))
    /\ UNCHANGED scheduled

VisitOther ==
    /\ bpc = "walk"
    /\ plan[at].kind \in {"Explain", "Scan"}
    /\ Visited(Visit(PErr("UnknownPlan"), ctx, TRUE))
    /\ UNCHANGED scheduled

PipeNext ==
    \/ BuildStart
    \/ VisitSelect
    \/ VisitStage
    \/ VisitProjection
    \/ VisitAggregatorPartial
    \/ VisitAggregatorFinal
    \/ VisitFilter
    \/ VisitSort
    \/ VisitLimit
    \/ VisitReadSource
    \/ VisitOther

\* The builder on plans of up to MaxDepth nodes above a leaf, on a context
\* with max_threads = MaxThreads over sources of MaxParts partitions.
PipeInit == PipeInitOf(PlansOf(MaxDepth, {MaxParts}), {MaxThreads}) /\ TwinIdle /\ MoreIdle

SpecPipe == PipeInit /\ [][PipeNext]_vars

\* The builder on plans of up to MaxDepthSrc nodes above a leaf, on contexts
\* with any max_threads up to MaxThreads over sources of any number of
\* partitions up to MaxParts, the empty list included.
SourceInit ==
    PipeInitOf(PlansOf(MaxDepthSrc, 0 .. MaxParts), 0 .. MaxThreads) /\ TwinIdle /\ MoreIdle

SpecSource == SourceInit /\ [][PipeNext]_vars

(***************************************************************************)
(* Two builds of the same plan, one after the other, by two builders whose *)
(* contexts have the same max_threads and may have different partitions    *)
(* bound from earlier use, with one scheduler: reschedule returns the same *)
(* executors for the same input plan.                                      *)
(***************************************************************************)
\* The closure given to walk_postorder, on one node.
postorder_closure(node, lim, p, c, executors) ==
    CASE node.kind = "Select" -> Visit(POk(p), c, TRUE)
      [] node.kind = "Stage" -> visit_stage_plan(p, c, executors)
      [] node.kind = "Projection" -> visit_projection_plan(p, c, node)
      [] node.kind = "AggregatorPartial" -> visit_aggregator_partial_plan(p, c, node)
      [] node.kind = "AggregatorFinal" -> visit_aggregator_final_plan(p, c, node)
      [] node.kind = "Filter" -> visit_filter_plan(p, c, node)
      [] node.kind = "Sort" -> visit_sort_plan(lim, p, c, node)
      [] node.kind = "Limit" -> visit_limit_plan(p, c, node)
      [] node.kind = "ReadSource" -> visit_read_data_source_plan(p, c, node)
      [] OTHER -> Visit(PErr("UnknownPlan"), c, TRUE)

\* The second build after the closure left v on node b.at: as Visited.
Walked(b, v) ==
    IF ~v.ok
    THEN [b EXCEPT !.ctx = v.ctx, !.bpc = "done", !.bret = PErr(v.code)]
    ELSE IF v.cont /\ b.at > 1
         THEN [b EXCEPT !.ctx = v.ctx, !.pipeline = v.pipeline, !.at = b.at - 1]
         ELSE [b EXCEPT !.ctx = v.ctx, !.pipeline = v.pipeline, !.bpc = "done",
                        !.bret = POk(v.pipeline)]

SchedulersOf(pl) ==
    {r \in [1 .. Len(pl) -> 0 .. MaxExecutors] :
        \A i \in 1 .. Len(pl) : pl[i].kind # "Stage" => r[i] = 0}

TwinInit ==
    /\ PipeInitOf(PlansOf(MaxDepthTwin, {MaxParts}), {MaxThreads})
    /\ MoreIdle
    /\ replies \in SchedulersOf(plan)
    /\ \E bound \in {None} \cup {Some(np) : np \in 0 .. MaxParts} :
          twin = [NoTwin EXCEPT !.ctx = [max_threads |-> ctx.max_threads,
                                         partitions |-> bound],
                                !.bpc = "start"]

\* A step of the first build, with the scheduler's reply at a Stage node.
FirstBuild ==
    /\ PipeNext
    /\ Visiting("Stage") => scheduled' = replies[at]

\* The second build starts when the first has returned.
TwinBuildStart ==
    /\ bpc = "done"
    /\ twin.bpc = "start"
    /\ twin' = [twin EXCEPT !.limit = walk_preorder(plan, None),
                            !.pipeline = Pipeline_create,
                            !.bpc = "walk",
                            !.at = Len(plan)]
    /\ UNCHANGED <<replies, pipeVars, treeVars, concVars, moreVars>>

TwinVisit ==
    /\ twin.bpc = "walk"
    /\ twin' = Walked(twin, postorder_closure(plan[twin.at], twin.limit, twin.pipeline,
                                              twin.ctx, replies[twin.at]))
    /\ UNCHANGED <<replies, pipeVars, treeVars, concVars, moreVars>>

TwinNext ==
    \/ FirstBuild
    \/ TwinBuildStart
    \/ TwinVisit

SpecTwin == TwinInit /\ [][TwinNext]_vars

(***************************************************************************)
(* Session (query/src/sessions/session.rs).  MaxCallers threads make up    *)
(* to MaxCalls calls of kill, force_kill_query, force_kill_session,        *)
(* create_context and attach on one session.  A call is a sequence of      *)
(* steps; a step ends where the method takes the mutex, blocks, awaits or  *)
(* calls out.  A caller's pc names where it stands: "kill",                *)
(* "force_kill_query", "create_context", "attach" and "store" are at       *)
(* mutable_state.lock(); "block_on" is in futures::executor::block_on(rx); *)
(* "context_kill" is in context_shared.kill(); "discover" is in            *)
(* discovery.discover().await.                                             *)
(* The task attach spawns is "awaiting" (rx.await), then "callback" (about *)
(* to run io_shutdown), "replying" (about to tx.send(())), "finished".     *)
(***************************************************************************)
Callers == 1 .. MaxCallers

NoCaller == [op |-> "", pc |-> "idle", io |-> 0, shared |-> 0, ret |-> 0]

\* Session::try_create: the MutableStatus of a new session.
try_create ==
    [abort |-> FALSE, client_host |-> None, io_shutdown_tx |-> None, context_shared |-> None]

\* The callbacks given to attach: one that calls no method of the session
\* ("plain"), and one that calls a method of the session that takes the mutex
\* of mutable_state, such as is_aborting ("locks").
IoShutdowns == {"plain", "locks"}

\* What attach creates: the oneshot channel whose sender goes to
\* io_shutdown_tx, and the spawned task that holds its receiver and the
\* callback io_shutdown.
NewChan(io_shutdown) ==
    [sender |-> "stored", task |-> "awaiting", reply |-> "none", io_shutdown_calls |-> 0,
     io_shutdown |-> io_shutdown]

\* A sender that is overwritten is dropped.
DropSender(chs, tx) ==
    IF tx = None THEN chs ELSE [chs EXCEPT ![tx[1]].sender = "dropped"]

\* Variant of kill that does not look at context_shared.
kill_ignoring_context(ms, chs) ==
    LET ms1 == [ms EXCEPT !.abort = TRUE]
    IN IF ms1.io_shutdown_tx # None
       THEN LET k == ms1.io_shutdown_tx[1]
                ms2 == [ms1 EXCEPT !.io_shutdown_tx = None]
            IN IF chs[k].task = "awaiting"
               THEN [ms |-> ms2,
                     chans |-> [chs EXCEPT ![k].sender = "sent", ![k].reply = "pending"],
                     block_on |-> k]
               ELSE [ms |-> ms2, chans |-> [chs EXCEPT ![k].sender = "dropped"],
                     block_on |-> 0]
       ELSE [ms |-> ms1, chans |-> chs, block_on |-> 0]

\* Variant of kill that sends on the registered sender without taking it
\* out of io_shutdown_tx.
kill_keeping_sender(ms, chs) ==
    LET ms1 == [ms EXCEPT !.abort = TRUE]
    IN IF ms1.context_shared = None /\ ms1.io_shutdown_tx # None
       THEN LET k == ms1.io_shutdown_tx[1]
            IN IF chs[k].task = "awaiting"
               THEN [ms |-> ms1,
                     chans |-> [chs EXCEPT ![k].sender = "sent", ![k].reply = "pending"],
                     block_on |-> k]
               ELSE [ms |-> ms1, chans |-> [chs EXCEPT ![k].sender = "dropped"],
                     block_on |-> 0]
       ELSE [ms |-> ms1, chans |-> chs, block_on |-> 0]

\* Session::kill from the lock to block_on(rx), or to its end when it does
\* not block: the new MutableStatus, the channels, and the channel whose
\* reply it blocks on (0: none).  send is_ok while the receiver is alive,
\* that is while the task awaits it.
kill(ms, chs) ==
    LET ms1 == [ms EXCEPT !.abort = TRUE]
    IN IF ms1.context_shared = None /\ ms1.io_shutdown_tx # None
       THEN LET k == ms1.io_shutdown_tx[1]
                ms2 == [ms1 EXCEPT !.io_shutdown_tx = None]
            IN IF chs[k].task = "awaiting"
               THEN [ms |-> ms2,
                     chans |-> [chs EXCEPT ![k].sender = "sent", ![k].reply = "pending"],
                     block_on |-> k]
               ELSE [ms |-> ms2, chans |-> [chs EXCEPT ![k].sender = "dropped"],
                     block_on |-> 0]
       ELSE [ms |-> ms1, chans |-> chs, block_on |-> 0]

\* Variant of the second locked part of create_context that stores and
\* returns nothing on a session that is aborting.
create_context_unless_aborting(ms, own) ==
    IF ms.abort THEN [ms |-> ms, ret |-> 0]
    ELSE IF ms.context_shared # None
         THEN [ms |-> ms, ret |-> ms.context_shared[1]]
         ELSE [ms |-> [ms EXCEPT !.context_shared = Some(own)], ret |-> own]

\* Variant of the second locked part of create_context that builds the
\* returned context from the instance it created itself.
create_context_returning_own(ms, own) ==
    [ms |-> IF ms.context_shared # None THEN ms
            ELSE [ms EXCEPT !.context_shared = Some(own)],
     ret |-> own]

\* The second locked part of Session::create_context, which holds the shared
\* instance own it has created: with an instance stored meanwhile it returns
\* a context from that one, else it stores own and returns a context from
\* it.  The new MutableStatus and the instance of the returned context.
create_context(ms, own) ==
    IF ms.context_shared # None
    THEN [ms |-> ms, ret |-> ms.context_shared[1]]
    ELSE [ms |-> [ms EXCEPT !.context_shared = Some(own)], ret |-> own]

\* Session::force_kill_query from the lock to context_shared.kill(): the new
\* MutableStatus and the context it is about to kill (0: none).
force_kill_query(ms) ==
    IF ms.context_shared # None
    THEN [ms |-> [ms EXCEPT !.context_shared = None], context_kill |-> ms.context_shared[1]]
    ELSE [ms |-> ms, context_kill |-> 0]

\* Session::attach.
attach(ms, chs, host, io_shutdown) ==
    [ms |-> [ms EXCEPT !.client_host = host, !.io_shutdown_tx = Some(Len(chs) + 1)],
     chans |-> Append(DropSender(chs, ms.io_shutdown_tx), NewChan(io_shutdown))]

\* The caller c goes to pc with the locals io and shared; "idle" ends its call.
Goto(c, to, io, shared) ==
    callers' = [callers EXCEPT ![c] = [op |-> IF to = "idle" THEN "" ELSE @.op,
                                       pc |-> to, io |-> io, shared |-> shared,
                                       ret |-> 0]]

\* create_context returns to its caller c the query context built by
\* DatabendQueryContext::from_shared from the instance shared.
ReturnContext(c, shared) ==
    callers' = [callers EXCEPT ![c] = [NoCaller EXCEPT !.ret = shared]]

SessRest == <<treeVars, concVars, pipeVars, twinVars, refVars, cfgVars>>

SessInit ==
    /\ mutable_state = try_create
    /\ lock = 0
    /\ callers = [c \in Callers |-> NoCaller]
    /\ chans = << >>
    /\ contexts = << >>
    /\ ncalls = 0
    /\ TreeIdle /\ PipeIdle /\ RefIdle /\ CfgIdle

\* A thread calls a method of the session.
SessCall ==
    \E c \in Callers, op \in {"kill", "force_kill_query", "force_kill_session",
                              "create_context", "attach"} :
       /\ callers[c].pc = "idle"
       /\ op = "attach" => Len(chans) < MaxAttach
       /\ callers' = [callers EXCEPT ![c] =
                         [NoCaller EXCEPT !.op = op,
                                          !.pc = IF op = "force_kill_session"
                                                 THEN "force_kill_query" ELSE op]]
       /\ ncalls < MaxCalls
       /\ ncalls' = ncalls + 1
       /\ UNCHANGED <<mutable_state, lock, chans, contexts, SessRest>>

\* kill takes the mutex, sets abort and, with no context attached and a
\* sender registered, takes the sender and sends the task a reply channel;
\* it then blocks on the reply with the mutex held, or returns.
KillEnter ==
    \E c \in Callers :
       /\ callers[c].pc = "kill"
       /\ lock = 0
       /\ LET r == kill(mutable_state, chans)
          IN /\ mutable_state' = r.ms
             /\ chans' = r.chans
             /\ IF r.block_on # 0
                THEN lock' = c /\ Goto(c, "block_on", r.block_on, 0)
                ELSE lock' = 0 /\ Goto(c, "idle", 0, 0)
       /\ UNCHANGED <<contexts, ncalls, SessRest>>

\* block_on(rx) returns when the task has replied or dropped the reply
\* channel; kill returns and its guard releases the mutex.
KillWake ==
    \E c \in Callers :
       /\ callers[c].pc = "block_on"
       /\ chans[callers[c].io].reply \in {"sent", "dropped"}
       /\ lock' = 0
       /\ Goto(c, "idle", 0, 0)
       /\ UNCHANGED <<mutable_state, chans, contexts, ncalls, SessRest>>

\* The spawned task: rx.await yields the reply channel kill sent.
TaskReceive ==
    \E k \in 1 .. Len(chans) :
       /\ chans[k].task = "awaiting"
       /\ chans[k].sender = "sent"
       /\ chans' = [chans EXCEPT ![k].task = "callback"]
       /\ UNCHANGED <<mutable_state, lock, callers, contexts, ncalls, SessRest>>

\* rx.await yields Err when the sender was dropped: the task ends.
TaskCancelled ==
    \E k \in 1 .. Len(chans) :
       /\ chans[k].task = "awaiting"
       /\ chans[k].sender = "dropped"
       /\ chans' = [chans EXCEPT ![k].task = "finished"]
       /\ UNCHANGED <<mutable_state, lock, callers, contexts, ncalls, SessRest>>

\* (io_shutdown)(): the callback returns, or panics and the reply channel
\* is dropped with the task.  A callback that calls a method of the session
\* runs it once the mutex is free (the method takes and releases it).
TaskCallback ==
    \E k \in 1 .. Len(chans), panics \in BOOLEAN :
       /\ chans[k].task = "callback"
       /\ chans[k].io_shutdown = "locks" => lock = 0
       /\ chans' = [chans EXCEPT ![k].io_shutdown_calls = @ + 1,
                                 ![k].task = IF panics THEN "finished" ELSE "replying",
                                 ![k].reply = IF panics THEN "dropped" ELSE @]
       /\ UNCHANGED <<mutable_state, lock, callers, contexts, ncalls, SessRest>>

\* tx.send(()).ok()
TaskReply ==
    \E k \in 1 .. Len(chans) :
       /\ chans[k].task = "replying"
       /\ chans' = [chans EXCEPT ![k].task = "finished", ![k].reply = "sent"]
       /\ UNCHANGED <<mutable_state, lock, callers, contexts, ncalls, SessRest>>

\* force_kill_query takes the mutex and takes the context out of
\* mutable_state; with a context it goes on to context_shared.kill() with
\* the mutex held.  force_kill_session goes on to kill.
ForceKillQueryEnter ==
    \E c \in Callers :
       /\ callers[c].pc = "force_kill_query"
       /\ lock = 0
       /\ LET r == force_kill_query(mutable_state)
          IN /\ mutable_state' = r.ms
             /\ IF r.context_kill # 0
                THEN lock' = c /\ Goto(c, "context_kill", 0, r.context_kill)
                ELSE /\ lock' = 0
                     /\ Goto(c, IF callers[c].op = "force_kill_session" THEN "kill"
                                ELSE "idle", 0, 0)
       /\ UNCHANGED <<chans, contexts, ncalls, SessRest>>

\* context_shared.kill() runs and returns; the guard releases the mutex.
ContextKill ==
    \E c \in Callers :
       /\ callers[c].pc = "context_kill"
       /\ contexts' = [contexts EXCEPT ![callers[c].shared].killed = TRUE]
       /\ lock' = 0
       /\ Goto(c, IF callers[c].op = "force_kill_session" THEN "kill" ELSE "idle", 0, 0)
       /\ UNCHANGED <<mutable_state, chans, ncalls, SessRest>>

\* create_context reads context_shared under the mutex and releases it:
\* with a context it returns one from it, else it goes on to discover.
CreateContextRead ==
    \E c \in Callers :
       /\ callers[c].pc = "create_context"
       /\ lock = 0
       /\ IF mutable_state.context_shared # None
          THEN ReturnContext(c, mutable_state.context_shared[1])
          ELSE Goto(c, "discover", 0, 0)
       /\ UNCHANGED <<mutable_state, lock, chans, contexts, ncalls, SessRest>>

\* discovery.discover().await returns: an error ends create_context, a
\* cluster goes to DatabendQueryContextShared::try_create.
Discover ==
    \E c \in Callers, ok \in BOOLEAN :
       /\ callers[c].pc = "discover"
       /\ ok => Len(contexts) < MaxContexts
       /\ IF ok
          THEN /\ contexts' = Append(contexts, [killed |-> FALSE])
               /\ Goto(c, "store", 0, Len(contexts) + 1)
          ELSE /\ Goto(c, "idle", 0, 0)
               /\ UNCHANGED contexts
       /\ UNCHANGED <<mutable_state, lock, chans, ncalls, SessRest>>

\* create_context takes the mutex again and keeps the context another call
\* stored meanwhile, or stores its own.
CreateContextStore ==
    \E c \in Callers :
       /\ callers[c].pc = "store"
       /\ lock = 0
       /\ LET r == create_context(mutable_state, callers[c].shared)
          IN /\ mutable_state' = r.ms
             /\ ReturnContext(c, r.ret)
       /\ UNCHANGED <<lock, chans, contexts, ncalls, SessRest>>

\* attach takes the mutex, stores host and the sender of a new channel
\* (dropping the sender stored before), spawns the task and returns.
AttachCall ==
    \E c \in Callers :
       /\ callers[c].pc = "attach"
       /\ lock = 0
       /\ \E io_shutdown \in IoShutdowns :
             LET r == attach(mutable_state, chans, Some("host"), io_shutdown)
             IN /\ mutable_state' = r.ms
                /\ chans' = r.chans
       /\ Goto(c, "idle", 0, 0)
       /\ UNCHANGED <<lock, contexts, ncalls, SessRest>>

SessNext ==
    \/ SessCall
    \/ KillEnter
    \/ KillWake
    \/ TaskReceive
    \/ TaskCancelled
    \/ TaskCallback
    \/ TaskReply
    \/ ForceKillQueryEnter
    \/ ContextKill
    \/ CreateContextRead
    \/ Discover
    \/ CreateContextStore
    \/ AttachCall

SpecSess == SessInit /\ [][SessNext]_vars

\* The session with its threads and tasks scheduled: a thread that can take
\* its next step takes it, a spawned task that can run is run, a future that
\* is awaited completes.  Only the calls themselves need not be made.
SessFairness ==
    /\ WF_vars(KillEnter) /\ WF_vars(KillWake)
    /\ WF_vars(TaskReceive) /\ WF_vars(TaskCancelled)
    /\ WF_vars(TaskCallback) /\ WF_vars(TaskReply)
    /\ WF_vars(ForceKillQueryEnter) /\ WF_vars(ContextKill)
    /\ WF_vars(CreateContextRead) /\ WF_vars(Discover) /\ WF_vars(CreateContextStore)
    /\ WF_vars(AttachCall)

SpecSessLive == SessInit /\ [][SessNext]_vars /\ SessFairness

(***************************************************************************)
(* SessionRef (query/src/sessions/session_ref.rs) and the session manager  *)
(* that hands them out.  The manager (its file is not among the sources)   *)
(* keeps a table of the sessions it created and is itself held through     *)
(* Arc<SessionManager> handles: one in the field `sessions` of every       *)
(* Session that has not been freed, and `handles` more held elsewhere (the *)
(* server and its services).  A Session is freed when neither the table    *)
(* nor a SessionRef holds it.                                              *)
(***************************************************************************)
SessionIds == 1 .. MaxSessions

\* The sessions that have not been freed, and Arc::strong_count(&self.sessions).
LiveSessions(tb, rf) == {s \in SessionIds : s \in tb \/ rf[s] > 0}

strong_count(tb, rf, hd) == hd + Cardinality(LiveSessions(tb, rf))

\* SessionManager::destroy_session
destroy_session(tb, id) == tb \ {id}

\* Session::destroy_session_ref, called by SessionRef::drop before the
\* SessionRef releases its session.
destroy_session_ref(tb, rf, hd, ds, id) ==
    IF strong_count(tb, rf, hd) = 3
    THEN [table |-> destroy_session(tb, id), destroyed |-> [ds EXCEPT ![id] = @ + 1]]
    ELSE [table |-> tb, destroyed |-> ds]

RefRest == <<treeVars, concVars, pipeVars, twinVars, sessVars, cfgVars>>

RefInit ==
    /\ table = {}
    /\ refs = [s \in SessionIds |-> 0]
    /\ handles \in 1 .. MaxHandles
    /\ destroyed = [s \in SessionIds |-> 0]
    /\ TreeIdle /\ PipeIdle /\ SessIdle /\ CfgIdle

\* The manager creates a session, registers it and returns its SessionRef.
CreateSession ==
    \E id \in SessionIds :
       /\ id \notin table
       /\ refs[id] = 0
       /\ destroyed[id] = 0
       /\ table' = table \cup {id}
       /\ refs' = [refs EXCEPT ![id] = 1]
       /\ UNCHANGED <<handles, destroyed, RefRest>>

\* SessionRef::clone
CloneRef ==
    \E id \in SessionIds :
       /\ refs[id] > 0
       /\ refs[id] < MaxRefs
       /\ destroyed[id] < MaxDestroys
       /\ refs' = [refs EXCEPT ![id] = @ + 1]
       /\ UNCHANGED <<table, handles, destroyed, RefRest>>

\* A SessionRef is dropped: drop calls destroy_session_ref, then the
\* SessionRef releases its session.
DropRef ==
    \E id \in SessionIds :
       /\ refs[id] > 0
       /\ LET r == destroy_session_ref(table, refs, handles, destroyed, id)
          IN /\ table' = r.table
             /\ destroyed' = r.destroyed
       /\ refs' = [refs EXCEPT ![id] = @ - 1]
       /\ UNCHANGED <<handles, RefRest>>

\* A handle to the manager is cloned or dropped outside the sessions.
OtherHandle ==
    \E n \in 1 .. MaxHandles :
       /\ n # handles
       /\ handles' = n
       /\ UNCHANGED <<table, refs, destroyed, RefRest>>

RefNext ==
    \/ CreateSession
    \/ CloneRef
    \/ DropRef
    \/ OtherHandle

SpecRef == RefInit /\ [][RefNext]_vars

(***************************************************************************)
(* StorageConfig (query/src/configs/config_storage.rs).  A configuration   *)
(* starts as StorageConfig::default(), load_from_env overrides the fields  *)
(* whose environment variable is set, and the configuration is then        *)
(* formatted with {:?}.  Debug output is a sequence of pieces of text.     *)
(***************************************************************************)
Text == <<"a", "b", "c", "d">>

Strings == {""} \cup {Text[i] : i \in 1 .. MaxStr}

DfsStorageConfig_default ==
    [address |-> "", username |-> "", password |-> "",
     rpc_tls_storage_server_root_ca_cert |-> "",
     rpc_tls_storage_service_domain_name |-> ""]

DiskStorageConfig_default == [data_path |-> ""]

S3StorageConfig_default ==
    [region |-> "", access_key_id |-> "", secret_access_key |-> "", bucket |-> ""]

StorageConfig_default ==
    [storage_type |-> "disk",
     dfs |-> DfsStorageConfig_default,
     disk |-> DiskStorageConfig_default,
     s3 |-> S3StorageConfig_default]

\* The environment: a variable is unset (None) or holds a non-empty string.
EnvVar == {None} \cup {Some(s) : s \in Strings \ {""}}

Environments ==
    [storage_type : EnvVar,
     dfs : [address : EnvVar, username : EnvVar, password : EnvVar,
            rpc_tls_storage_server_root_ca_cert : EnvVar,
            rpc_tls_storage_service_domain_name : EnvVar],
     disk : [data_path : EnvVar],
     s3 : [region : EnvVar, access_key_id : EnvVar, secret_access_key : EnvVar,
           bucket : EnvVar]]

\* env_helper!: the field takes the value of its variable if the variable is set.
env_helper(field, var) == IF var = None THEN field ELSE var[1]

env_group(group, env) == [f \in DOMAIN group |-> env_helper(group[f], env[f])]

\* StorageConfig::load_from_env
load_from_env(c, env) ==
    [storage_type |-> env_helper(c.storage_type, env.storage_type),
     dfs |-> env_group(c.dfs, env.dfs),
     disk |-> env_group(c.disk, env.disk),
     s3 |-> env_group(c.s3, env.s3)]

\* {:?} of a String, and "{}" of a String between written quotes.
String_fmt(s) == <<"\"", s, "\"">>

Display_quoted(s) == <<"\"", s, "\"">>

\* Variant that also writes the password.
DfsStorageConfig_fmt_with_password(dfs) ==
    <<"{">> \o <<"dfs.storage.address: ">> \o Display_quoted(dfs.address) \o <<", ">>
            \o <<"dfs.storage.password: ">> \o Display_quoted(dfs.password) \o <<", ">>
            \o <<"}">>

\* impl fmt::Debug for DfsStorageConfig
DfsStorageConfig_fmt(dfs) ==
    <<"{">> \o <<"dfs.storage.address: ">> \o Display_quoted(dfs.address) \o <<", ">>
            \o <<"}">>

\* #[derive(Debug)] of DiskStorageConfig
DiskStorageConfig_fmt(disk) ==
    <<"DiskStorageConfig { ", "data_path: ">> \o String_fmt(disk.data_path) \o <<" }">>

\* impl fmt::Debug for S3StorageConfig
S3StorageConfig_fmt(s3) ==
    <<"{">> \o <<"s3.storage.region: ">> \o Display_quoted(s3.region) \o <<", ">>
            \o <<"}">>

\* #[derive(Debug)] of StorageConfig
StorageConfig_fmt(c) ==
    <<"StorageConfig { ", "storage_type: ">> \o String_fmt(c.storage_type)
        \o <<", ", "dfs: ">> \o DfsStorageConfig_fmt(c.dfs)
        \o <<", ", "disk: ">> \o DiskStorageConfig_fmt(c.disk)
        \o <<", ", "s3: ">> \o S3StorageConfig_fmt(c.s3)
        \o <<" }">>

CfgRest == <<treeVars, concVars, pipeVars, twinVars, sessVars, refVars>>

CfgInit ==
    /\ config = StorageConfig_default
    /\ shown = None
    /\ cpc = "default"
    /\ TreeIdle /\ PipeIdle /\ SessIdle /\ RefIdle

LoadFromEnv ==
    /\ cpc = "default"
    /\ \E env \in Environments : config' = load_from_env(config, env)
    /\ cpc' = "loaded"
    /\ UNCHANGED <<shown, CfgRest>>

DebugFmt ==
    /\ cpc \in {"default", "loaded"}
    /\ shown' = Some(StorageConfig_fmt(config))
    /\ cpc' = "shown"
    /\ UNCHANGED <<config, CfgRest>>

CfgNext ==
    \/ LoadFromEnv
    \/ DebugFmt

SpecCfg == CfgInit /\ [][CfgNext]_vars

(***************************************************************************)
(* Vocabulary of the properties: logical keys and ranges, and what a       *)
(* caller reads through the operations when the store does not fail.       *)
(***************************************************************************)
AllKeys == 0 .. MaxKey

InRange(k, r) ==
    /\ \/ r.start.kind = "Unbounded"
       \/ r.start.kind = "Included" /\ r.start.at[1] <= k
       \/ r.start.kind = "Excluded" /\ r.start.at[1] < k
    /\ \/ r.end.kind = "Unbounded"
       \/ r.end.kind = "Included" /\ k <= r.end.at[1]
       \/ r.end.kind = "Excluded" /\ k < r.end.at[1]

Present(t, ks, k) == contains_key(t, ks, k, "none").val

ValueAt(t, ks, k) == get(t, ks, k, "none").val

PresentKeys(t, ks) == {k \in AllKeys : Present(t, ks, k)}

\* What a caller reads through key space ks: every key by get and contains_key,
\* the whole key space by range_keys and range_get, and last.  (What the range
\* reads return over a narrower range is a part of what they return here.)
View(t, ks) ==
    [get |-> [k \in AllKeys |-> get(t, ks, k, "none")],
     contains_key |-> [k \in AllKeys |-> contains_key(t, ks, k, "none")],
     range_keys |-> range_keys(t, ks, FullRange, "none"),
     range_get |-> range_get(t, ks, FullRange, "none"),
     last |-> last(t, ks, "none")]

StrictlyAscending(s) == \A i \in 1 .. Len(s) - 1 : s[i] < s[i + 1]

Elems(s) == {s[i] : i \in 1 .. Len(s)}

\* The logical keys of key space ks that the call c writes or deletes.
Mutates(c, ks, k) ==
    /\ c.ks = ks
    /\ \/ c.op \in {"insert", "remove"} /\ c.key = Some(k)
       \/ c.op = "insert_value" /\ to_key(c.val[1]) = k
       \/ c.op = "append" /\ \E i \in 1 .. Len(c.kvs) : c.kvs[i].key = k
       \/ c.op = "append_values" /\ \E i \in 1 .. Len(c.kvs) : to_key(c.kvs[i]) = k
       \/ c.op = "range_delete" /\ InRange(k, c.range[1])

(***************************************************************************)
(* C1: once insert::<KV>(k, v) has returned Ok, get::<KV>(k) returns       *)
(* Some(v) and contains_key::<KV>(k) returns true, and they keep doing so  *)
(* over every step that is not a mutation of k in that key space.          *)
(***************************************************************************)
C1_InsertThenGet ==
    [][/\ (pc' = "done" /\ call'.op = "insert" /\ ret'.ok)
            => /\ get(tree', call'.ks, call'.key[1], "none") = Ok(Some(call'.val[1]))
               /\ contains_key(tree', call'.ks, call'.key[1], "none") = Ok(TRUE)
       /\ tree' # tree
            => \A ks \in KeySpaces : \A k \in AllKeys :
                ~Mutates(call', ks, k)
                => /\ get(tree', ks, k, "none") = get(tree, ks, k, "none")
                   /\ contains_key(tree', ks, k, "none") = contains_key(tree, ks, k, "none")
      ]_vars

\* An insert over an existing, different value has returned Ok.
C1_Witness ==
    /\ pc = "done" /\ call.op = "insert" /\ ret.ok
    /\ ret.val # None /\ ret.val # call.val
    /\ ValueAt(tree, call.ks, call.key[1]) = call.val

(***************************************************************************)
(* C2: after range_delete::<KV>(r, flush) has returned Ok, every key of KV *)
(* in r is absent, and every key of KV outside r and every entry of any    *)
(* other key space has the value it had before the call.                   *)
(***************************************************************************)
C2_RangeDelete ==
    (pc = "done" /\ call.op = "range_delete" /\ ret.ok)
    => /\ \A k \in AllKeys :
            InRange(k, call.range[1]) => contains_key(tree, call.ks, k, "none") = Ok(FALSE)
       /\ \A ks \in KeySpaces : \A k \in AllKeys :
            (ks # call.ks \/ ~InRange(k, call.range[1]))
            => get(tree, ks, k, "none") = get(pre, ks, k, "none")

\* A range_delete removed a key, kept a key of its key space outside the range
\* and ran while the other key space held an entry.
C2_Witness ==
    /\ pc = "done" /\ call.op = "range_delete" /\ ret.ok
    /\ \E k \in AllKeys : Present(pre, call.ks, k) /\ InRange(k, call.range[1])
    /\ \E k \in AllKeys : Present(tree, call.ks, k) /\ ~InRange(k, call.range[1])
    /\ \E ks \in KeySpaces \ {call.ks} : PresentKeys(tree, ks) # {}

EffectOf(kvs) ==
    [k \in {kvs[i].key : i \in 1 .. Len(kvs)} |->
        Some(kvs[CHOOSE i \in 1 .. Len(kvs) :
                    /\ kvs[i].key = k
                    /\ \A j \in (i + 1) .. Len(kvs) : kvs[j].key # k].val)]

\* From tree t to tree t2 the whole effect eff is installed and nothing
\* else changes, or nothing changes at all.
AllOrNone(t, t2, eff) ==
    \/ t2 = t
    \/ \A k \in AllKeys :
        ValueAt(t2, ConcSpace, k) = IF k \in DOMAIN eff THEN eff[k] ELSE ValueAt(t, ConcSpace, k)

C4_Isolation ==
    /\ (pc = "done" /\ call.op # "open" /\ tree # pre)
        => \A ks \in KeySpaces \ {call.ks} : View(tree, ks) = View(pre, ks)
    /\ pc = "idle" => \A ks \in KeySpaces :
        /\ Elems(range_keys(tree, ks, FullRange, "none").val) = PresentKeys(tree, ks)
        /\ Len(range_keys(tree, ks, FullRange, "none").val) = Cardinality(PresentKeys(tree, ks))
        /\ LET l == last(tree, ks, "none").val
           IN l # None => l[1].val = ValueAt(tree, ks, l[1].key)[1]

\* Both key spaces hold the same logical key with different values, and a
\* range_delete over the unbounded range of one of them has just emptied it.
C4_Witness ==
    /\ pc = "done" /\ call.op = "range_delete" /\ ret.ok /\ call.range[1] = FullRange
    /\ \E k \in AllKeys :
        /\ Present(pre, "A", k) /\ Present(pre, "B", k)
        /\ ValueAt(pre, "A", k) # ValueAt(pre, "B", k)
    /\ PresentKeys(tree, call.ks) = {}
    /\ \E ks \in KeySpaces : PresentKeys(tree, ks) # {}

C6_NoFsyncWithoutSync == ~sync => fsync_calls = 0

\* A range_delete with a flush request changed a tree opened with sync = false.
C6_Witness ==
    /\ pc = "done" /\ ~sync /\ call.op = "range_delete" /\ call.flush /\ ret.ok
    /\ tree # pre
    /\ fsync_calls = 0

(***************************************************************************)
(* C7: range_keys::<KV>(r) returns exactly the keys of KV present that lie *)
(* in r, in strictly ascending order, and range_get::<KV>(r) returns the   *)
(* values of those keys in the same order, for every combination of        *)
(* unbounded, inclusive and exclusive bounds.                              *)
(***************************************************************************)
C7_RangeReads ==
    /\ (pc = "done" /\ call.op = "range_keys" /\ ret.ok)
        => /\ StrictlyAscending(ret.val)
           /\ Elems(ret.val) = {k \in PresentKeys(tree, call.ks) : InRange(k, call.range[1])}
    /\ (pc = "done" /\ call.op = "range_get" /\ ret.ok)
        => LET ks == range_keys(tree, call.ks, call.range[1], "none").val
           IN /\ Len(ret.val) = Len(ks)
              /\ \A i \in 1 .. Len(ks) : Some(ret.val[i]) = ValueAt(tree, call.ks, ks[i])

\* A range_get with an excluded end returned some but not all values of its
\* key space, which holds two different values.
C7_Witness ==
    /\ pc = "done" /\ call.op = "range_get" /\ ret.ok
    /\ call.range[1].end.kind = "Excluded"
    /\ Len(ret.val) >= 1
    /\ Len(ret.val) < Cardinality(PresentKeys(tree, call.ks))
    /\ \E k1, k2 \in PresentKeys(tree, call.ks) :
        ValueAt(tree, call.ks, k1) # ValueAt(tree, call.ks, k2)

(***************************************************************************)
(* C8: last::<KV>() returns None when KV holds no entry and otherwise the  *)
(* pair of the greatest key present in KV and its value, whatever the      *)
(* other key spaces hold.                                                  *)
(***************************************************************************)
C8_Last ==
    (pc = "done" /\ call.op = "last" /\ ret.ok)
    => IF PresentKeys(tree, call.ks) = {}
       THEN ret.val = None
       ELSE /\ ret.val # None
            /\ ret.val[1].key \in PresentKeys(tree, call.ks)
            /\ \A k \in PresentKeys(tree, call.ks) : k <= ret.val[1].key
            /\ Some(ret.val[1].val) = ValueAt(tree, call.ks, ret.val[1].key)

\* last through A returned the greater of two keys while B held an entry.
C8_Witness ==
    /\ pc = "done" /\ call.op = "last" /\ ret.ok /\ call.ks = "A"
    /\ Cardinality(PresentKeys(tree, "A")) >= 2
    /\ PresentKeys(tree, "B") # {}
    /\ ret.val # None

LimitsAt == {i \in 1 .. Len(plan) : plan[i].kind = "Limit"}

Outermost == CHOOSE i \in LimitsAt : \A j \in LimitsAt : i <= j

Innermost == CHOOSE i \in LimitsAt : \A j \in LimitsAt : j <= i

SortTransforms ==
    {t \in UNION {{pipeline[i][j] : j \in 1 .. Len(pipeline[i])} : i \in 1 .. Len(pipeline)} :
        t.name \in {"SortPartialTransform", "SortMergeTransform"}}

AddedTransforms ==
    UNION {{pipeline'[i][j] : j \in 1 .. Len(pipeline'[i])} :
              i \in (Len(pipeline) + 1) .. Len(pipeline')}

AddedSorts ==
    {t \in AddedTransforms : t.name \in {"SortPartialTransform", "SortMergeTransform"}}

LimitsAbove == {l \in LimitsAt : l < at}

NearestLimitAbove == CHOOSE l \in LimitsAbove : \A j \in LimitsAbove : j <= l

\* The step is a visit of a Sort node that did not fail.
SortVisited == Visiting("Sort") /\ (bpc' = "done" => bret'.ok)

SingleStreamPipes ==
    {i \in 1 .. Len(pipeline) :
        \E j \in 1 .. Len(pipeline[i]) :
           pipeline[i][j].name \in {"AggregatorFinalTransform", "GroupByFinalTransform",
                                    "LimitTransform"}}

(***************************************************************************)
(* C12: in every pipeline build produces, each AggregatorFinalTransform,   *)
(* GroupByFinalTransform and LimitTransform sits in a pipe of width 1      *)
(* whose immediately preceding pipe has width 1, whatever the width of the *)
(* pipeline was before the node was visited.                               *)
(***************************************************************************)
C12_MergedBeforeSingleStream ==
    \A i \in SingleStreamPipes :
       /\ nums(pipeline[i]) = 1
       /\ i > 1
       /\ nums(pipeline[i - 1]) = 1

\* build has returned a pipeline where a final aggregation and a limit each
\* follow pipes of which one is two wide and was merged.
C12_Witness ==
    /\ bpc = "done" /\ bret.ok
    /\ \E i, k \in SingleStreamPipes :
          /\ pipeline[i][1].name = "GroupByFinalTransform"
          /\ pipeline[k][1].name = "LimitTransform"
          /\ i > 2
          /\ pipeline[i - 1][1].name = "MergeProcessor"
          /\ nums(pipeline[i - 2]) = 2

\* The number of SourceTransform processors of a pipeline, and clamp.
Sources(p) ==
    IF p = << >> THEN 0
    ELSE Cardinality({j \in 1 .. Len(p[1]) : p[1][j].name = "SourceTransform"})

Clamp(x, lo, hi) == IF x < lo THEN lo ELSE IF x > hi THEN hi ELSE x

\* The step is a visit of a ReadSource node that did not fail.
ReadSourceVisited == Visiting("ReadSource") /\ (bpc' = "done" => bret'.ok)

(***************************************************************************)
(* C13 as stated: for every ReadSource node, every max_threads >= 0 and    *)
(* every partition list, the empty list included, the number of            *)
(* SourceTransform sources added is clamp(max_threads, 1, partitions.len): *)
(* 1 when max_threads = 0, never more than the partition count when that   *)
(* count is at least 1, and never less than 1.                             *)
(***************************************************************************)
C13_WorkersClamped ==
    [][ReadSourceVisited =>
          LET added == Sources(pipeline') - Sources(pipeline)
              parts == plan[at].parts
          IN /\ ctx.max_threads = 0 => added = 1
             /\ parts >= 1 => added = Clamp(ctx.max_threads, 1, parts)
             /\ added >= 1]_vars

\* The kinds of node that build has an arm for.
SupportedKinds ==
    {"Select", "Stage", "Projection", "AggregatorPartial", "AggregatorFinal", "Filter",
     "Sort", "Limit", "ReadSource"}

UnsupportedAt == {i \in 1 .. Len(plan) : plan[i].kind \notin SupportedKinds}

(***************************************************************************)
(* C14 as stated: build fails with UnknownPlan whenever the plan contains  *)
(* a node of a kind it has no arm for, wherever that node sits, above a    *)
(* Limit node included; it never returns Ok for such a plan.               *)
(***************************************************************************)
C14_UnknownPlanFails ==
    (bpc = "done" /\ UnsupportedAt # {}) => (~bret.ok /\ bret.code = "UnknownPlan")

\* One source pipe of n RemoteTransforms, one per executor in scheduler order.
RemoteSources(n) == << [i \in 1 .. n |-> Processor("RemoteTransform", None, i)] >>

Shape(p) == [i \in 1 .. Len(p) |-> [j \in 1 .. Len(p[i]) |-> p[i][j].name]]

Leaves(c, p) == callers[c].pc = p /\ callers'[c].pc # p

(***************************************************************************)
(* C17: Session::kill always sets the abort flag; with no query context    *)
(* attached and an io-shutdown sender registered, it takes the sender,     *)
(* sends a one-shot reply channel and returns only after the shutdown task *)
(* has replied or dropped the reply channel; with a query context          *)
(* attached it leaves the sender in place and the io_shutdown callback is  *)
(* not invoked.                                                            *)
(***************************************************************************)
C17_Kill ==
    [][/\ \A c \in Callers :
             /\ Leaves(c, "kill") =>
                   /\ mutable_state'.abort
                   /\ (mutable_state.context_shared = None
                          /\ mutable_state.io_shutdown_tx # None) =>
                         LET k == mutable_state.io_shutdown_tx[1]
                         IN /\ mutable_state'.io_shutdown_tx = None
                            /\ chans'[k].sender = "sent"
                            /\ chans'[k].reply = "pending"
                            /\ callers'[c].pc = "block_on"
                            /\ callers'[c].io = k
                   /\ mutable_state.context_shared # None =>
                         /\ mutable_state'.io_shutdown_tx = mutable_state.io_shutdown_tx
                         /\ chans' = chans
                         /\ callers'[c].pc = "idle"
             /\ Leaves(c, "block_on") => chans[callers[c].io].reply \in {"sent", "dropped"}
       /\ \A k \in 1 .. Len(chans) :
             chans'[k].io_shutdown_calls > chans[k].io_shutdown_calls
                => chans[k].sender = "sent"]_vars

\* A first kill sent the task of the first attach a reply channel and
\* returned after its reply; a later kill, with a query context attached,
\* left the sender of the second attach in place.
C17_Witness ==
    /\ \A c \in Callers : callers[c].pc = "idle"
    /\ mutable_state.abort
    /\ Len(chans) = 2
    /\ chans[1].reply = "sent" /\ chans[1].io_shutdown_calls = 1
    /\ mutable_state.context_shared # None
    /\ mutable_state.io_shutdown_tx = Some(2)
    /\ chans[2].sender = "stored" /\ chans[2].io_shutdown_calls = 0

(***************************************************************************)
(* C18 as stated: no Session method holds the mutable_state mutex while it *)
(* blocks or awaits: whenever a method waits on a channel reply, on        *)
(* cluster discovery, or is inside a callback into the query context, it   *)
(* does not hold the session mutex.                                        *)
(***************************************************************************)
C18_NoLockWhileWaiting ==
    \A c \in Callers :
       callers[c].pc \in {"block_on", "discover", "context_kill"} => lock # c

\* The step drops a SessionRef of session id, and the step calls
\* destroy_session with id.
Drops(id) == refs'[id] = refs[id] - 1

Destroys(id) == destroyed'[id] = destroyed[id] + 1

(***************************************************************************)
(* C19 as stated: dropping a SessionRef removes the session from the       *)
(* session manager (destroy_session is called with its id) exactly when no *)
(* other SessionRef to that session remains: the session is destroyed when *)
(* its last SessionRef is dropped and never while another SessionRef to it *)
(* is live, for any number of registered sessions and any order of clones  *)
(* and drops.                                                              *)
(***************************************************************************)
C19_DestroyedWithLastRef ==
    [][\A id \in SessionIds :
          /\ Drops(id) => (Destroys(id) <=> refs[id] = 1)
          /\ Destroys(id) => (Drops(id) /\ id \notin table')]_vars

\* The configurations that differ from c at most in the secret fields.
SecretVariants(c) ==
    {[c EXCEPT !.dfs.password = pw, !.dfs.username = un,
               !.s3.access_key_id = ak, !.s3.secret_access_key = sk] :
        pw \in Strings, un \in Strings, ak \in Strings, sk \in Strings}

(***************************************************************************)
(* C20: the Debug output of a storage configuration does not depend on its *)
(* secret fields: a configuration that differs from the formatted one only *)
(* in dfs.password, dfs.username, s3.access_key_id or s3.secret_access_key *)
(* has the same Debug output.                                              *)
(***************************************************************************)
C20_DebugHidesSecrets ==
    cpc = "shown" =>
        \A d \in SecretVariants(config) : Some(StorageConfig_fmt(d)) = shown

\* A configuration whose four secret fields are set has been formatted, and
\* its non-secret fields address and region are in the output.
C20_Witness ==
    /\ cpc = "shown"
    /\ config.dfs.password # "" /\ config.dfs.username # ""
    /\ config.s3.access_key_id # "" /\ config.s3.secret_access_key # ""
    /\ config.dfs.address # "" /\ config.s3.region # ""
    /\ shown = Some(StorageConfig_fmt(config))
    /\ \E i \in 1 .. Len(shown[1]) : shown[1][i] = config.dfs.address

\* The step is a call of op that met a failure of the codec.
CodecFailed(op, fault) ==
    /\ pc = "idle" /\ pc' = "done"
    /\ call'.op = op
    /\ call'.fault = fault

(***************************************************************************)
(* C21: if the serialization of a key or of a value fails in append or in  *)
(* append_values, the call returns that error before the batch is applied: *)
(* no pair of the batch becomes visible, not even those serialized before  *)
(* the failing one, the tree is unchanged and no fsync is issued.          *)
(***************************************************************************)
C21_SerializeFailsBeforeBatch ==
    [][CodecFailed("append", "ser") \/ CodecFailed("append_values", "ser")
         => /\ ret' = CodecError
            /\ tree' = tree
            /\ fsync_calls' = 0]_vars

\* An append on a sync tree has failed on its second pair, whose first pair
\* would have changed the tree.
C21_Witness ==
    /\ pc = "done" /\ sync
    /\ call.op = "append" /\ call.fault = "ser" /\ call.bad = 2
    /\ sled_apply_batch(pre, append_batch(call.ks, SubSeq(call.kvs, 1, 1))) # pre
    /\ tree = pre
    /\ ~ret.ok

\* The nodes that stand for transforms, and the name of the first transform
\* the visit of such a node appends.
Contributes(node) == node.kind \in SupportedKinds \ {"Select", "Stage"}

FirstTransformOf(node) ==
    CASE node.kind = "Projection" -> "ProjectionTransform"
      [] node.kind = "Filter" -> "FilterTransform"
      [] node.kind = "AggregatorPartial" ->
            IF node.grouped THEN "GroupByPartialTransform" ELSE "AggregatorPartialTransform"
      [] node.kind = "AggregatorFinal" ->
            IF node.grouped THEN "GroupByFinalTransform" ELSE "AggregatorFinalTransform"
      [] node.kind = "Sort" -> "SortPartialTransform"
      [] node.kind = "Limit" -> "LimitTransform"
      [] node.kind = "ReadSource" -> "SourceTransform"
      [] OTHER -> ""

\* The pipes that begin the transforms of a node: all but the merge processors
\* and the later phases of a sort.
OpensNode(pipe) == pipe[1].name \notin {"MergeProcessor", "SortMergeTransform"}

Reverse(s) == [i \in 1 .. Len(s) |-> s[Len(s) + 1 - i]]

\* The first transforms of the nodes of pl from the leaf to the root, and
\* those of the pipeline p from its head.
TransformsInPlanOrder(pl) ==
    LET nodes == Reverse(SelectSeq(pl, Contributes))
    IN [i \in 1 .. Len(nodes) |-> FirstTransformOf(nodes[i])]

TransformsInPipeOrder(p) ==
    LET pipes == SelectSeq(p, OpensNode)
    IN [i \in 1 .. Len(pipes) |-> pipes[i][1].name]

\* build has returned a pipeline for a plan of supported nodes without Stage
\* (whose reset discards the pipes of its input).
BuiltPlain ==
    /\ bpc = "done" /\ bret.ok
    /\ \A i \in 1 .. Len(plan) : plan[i].kind \in SupportedKinds \ {"Stage"}

(***************************************************************************)
(* C22 as stated: every plan node of a supported kind other than Select    *)
(* contributes its transforms to the pipeline build returns, the           *)
(* transforms of a node after those of its input; this holds for every     *)
(* supported node of the tree, the ancestors of a Limit node included.     *)
(* Stated for the plans without Stage.                                     *)
(***************************************************************************)
C22_EveryNodeContributes ==
    BuiltPlain => TransformsInPipeOrder(bret.val) = TransformsInPlanOrder(plan)

\* A pipe of w processors of one name, as a shape.
PipeOf(w, name) == [j \in 1 .. w |-> name]

(***************************************************************************)
(* C23: the visit of a Sort node on a pipeline whose last pipe has width w *)
(* appends a pipe of w SortPartialTransforms, then a pipe of w             *)
(* SortMergeTransforms and, only when w > 1, a merge processor followed by *)
(* a pipe of one final SortMergeTransform; when w = 1 nothing more is      *)
(* added.  In both cases the last pipe has width 1 after the visit.        *)
(***************************************************************************)
C23_SortThreePhases ==
    [][SortVisited =>
          LET w == nums(pipeline[Len(pipeline)])
          IN /\ Shape(pipeline') =
                   Shape(pipeline)
                   \o <<PipeOf(w, "SortPartialTransform"), PipeOf(w, "SortMergeTransform")>>
                   \o (IF w > 1
                       THEN <<PipeOf(1, "MergeProcessor"), PipeOf(1, "SortMergeTransform")>>
                       ELSE << >>)
             /\ nums(pipeline'[Len(pipeline')]) = 1]_vars

\* Two Sort nodes over a source of two streams have been built: the lower
\* one on width 2 (four pipes), the upper one on width 1 (two pipes).
C23_Witness ==
    /\ bpc = "done" /\ bret.ok
    /\ Len(plan) = 3
    /\ plan[1].kind = "Sort" /\ plan[2].kind = "Sort" /\ plan[3].kind = "ReadSource"
    /\ Shape(bret.val) =
          <<PipeOf(2, "SourceTransform"),
            PipeOf(2, "SortPartialTransform"), PipeOf(2, "SortMergeTransform"),
            PipeOf(1, "MergeProcessor"), PipeOf(1, "SortMergeTransform"),
            PipeOf(1, "SortPartialTransform"), PipeOf(1, "SortMergeTransform")>>

(***************************************************************************)
(* C24 as stated: every pipeline build returns with Ok has a head pipe     *)
(* that is a non-empty source pipe (SourceTransform or RemoteTransform     *)
(* processors only, width >= 1), and the width never decreases from one    *)
(* pipe to the next except through a merge processor: the pipes of         *)
(* Projection, Filter and AggregatorPartial/GroupByPartial are as wide as  *)
(* the pipe they are appended to.                                          *)
(***************************************************************************)
C24_SourceHeadAndWidths ==
    (bpc = "done" /\ bret.ok) =>
        LET p == bret.val
        IN /\ p # << >>
           /\ nums(p[1]) >= 1
           /\ \A j \in 1 .. nums(p[1]) :
                 p[1][j].name \in {"SourceTransform", "RemoteTransform"}
           /\ \A i \in 2 .. Len(p) :
                 /\ nums(p[i]) < nums(p[i - 1]) => p[i][1].name = "MergeProcessor"
                 /\ p[i][1].name \in {"ProjectionTransform", "FilterTransform",
                                      "AggregatorPartialTransform",
                                      "GroupByPartialTransform"}
                    => nums(p[i]) = nums(p[i - 1])

SortsAt == {i \in 1 .. Len(plan) : plan[i].kind = "Sort"}

\* The pipes with which the visit of a Sort node begins.
SortPartialPipes(p) == {i \in 1 .. Len(p) : p[i][1].name = "SortPartialTransform"}

\* The hint of the preorder scan of the whole plan.
ScanHint == IF LimitsAt = {} THEN None ELSE Some(plan[Innermost].n)

CalledKey == serialize_key(call'.ks, call'.key[1])

(***************************************************************************)
(* C26: remove and insert change the tree before the steps that can still  *)
(* fail.  When remove returns an error from the flush or from decoding the *)
(* removed value, the key is already removed; when insert returns an error *)
(* from decoding the previous value or from the flush, the new value is    *)
(* already stored.  An Err from them does not mean an unchanged tree.      *)
(***************************************************************************)
C26_MutatedBeforeFailure ==
    [][/\ (CodecFailed("remove", "flush") \/ CodecFailed("remove", "de"))
          => /\ ~ret'.ok
             /\ CalledKey \notin DOMAIN tree'
             /\ tree' = sled_remove(tree, CalledKey)
       /\ (CodecFailed("insert", "de") \/ CodecFailed("insert", "flush"))
          => /\ ~ret'.ok
             /\ CalledKey \in DOMAIN tree'
             /\ tree'[CalledKey] = serialize_value(call'.ks, call'.val[1])
             /\ tree' = sled_insert(tree, CalledKey, tree'[CalledKey])]_vars

\* A remove has returned the error of decoding the value it removed, and the
\* key, present before the call, is gone.
C26_Witness ==
    /\ pc = "done"
    /\ call.op = "remove" /\ call.fault = "de"
    /\ ~ret.ok
    /\ serialize_key(call.ks, call.key[1]) \in DOMAIN pre
    /\ serialize_key(call.ks, call.key[1]) \notin DOMAIN tree
    /\ tree # pre

\* The byte keys the scan of the running range_delete found, and the byte keys
\* of its range that the tree holds now.
ScannedKeys == {rd_batch[i].key : i \in 1 .. Len(rd_batch)}

KeysInRangeNow ==
    LET found == sled_range(tree, serialize_range(call.ks, call.range[1]))
    IN {found[i] : i \in 1 .. Len(found)}

(***************************************************************************)
(* C27: range_delete deletes exactly the keys it found when it scanned the *)
(* range.  The scan and the application of the batch are two steps: a key  *)
(* that a concurrent caller inserts into the range between them is still   *)
(* present when range_delete returns Ok, and a key the scan saw is deleted *)
(* by the batch even if a concurrent caller has inserted it again.         *)
(***************************************************************************)
C27_DeletesWhatItScanned ==
    [][(pc = "scanned" /\ pc' = "idle") =>
          /\ \A b \in DOMAIN tree \ ScannedKeys : b \in DOMAIN tree' /\ tree'[b] = tree[b]
          /\ DOMAIN tree' \subseteq DOMAIN tree
          /\ tree' = tree \/ ScannedKeys \cap DOMAIN tree' = {}]_vars

\* A range_delete has scanned its range, and the range now holds a key that
\* the scan did not find: a concurrent caller has inserted it since.
C27_Witness ==
    /\ pc = "scanned"
    /\ KeysInRangeNow \ ScannedKeys # {}

\* The thread c is in kill: at its lock or blocked on the reply channel.
InKill(c) == callers[c].pc \in {"kill", "block_on"}

(***************************************************************************)
(* C28 as stated: Session::kill eventually returns in every execution in   *)
(* which the io_shutdown callback terminates; it cannot block forever on   *)
(* the reply channel, also when the callback calls a method of the session *)
(* that takes the mutex, and also when two threads call kill.              *)
(***************************************************************************)
C28_KillReturns ==
    \A c \in Callers : InKill(c) ~> callers[c].pc = "idle"

(***************************************************************************)
(* C30: the io_shutdown callback registered by one attach call is invoked  *)
(* at most once, whatever kill and force_kill_session calls are made and   *)
(* however they interleave: a kill sends on a sender only if it is the     *)
(* one still registered, and takes it; a kill that finds no sender         *)
(* registered only sets the abort flag.                                    *)
(***************************************************************************)
C30_ShutdownAtMostOnce ==
    [][/\ \A k \in 1 .. Len(chans') : chans'[k].io_shutdown_calls <= 1
       /\ \A k \in 1 .. Len(chans) :
             (chans'[k].sender = "sent" /\ chans[k].sender # "sent") =>
                /\ chans[k].sender = "stored"
                /\ mutable_state.io_shutdown_tx = Some(k)
                /\ mutable_state'.io_shutdown_tx = None
       /\ \A c \in Callers :
             (Leaves(c, "kill") /\ mutable_state.io_shutdown_tx = None) =>
                /\ mutable_state' = [mutable_state EXCEPT !.abort = TRUE]
                /\ chans' = chans
                /\ callers'[c].pc = "idle"]_vars

\* Two threads are in kill on a session with one attach and no query
\* context: the first took the sender and waits for the reply, the callback
\* has been invoked once, and the second is about to find the sender absent.
C30_Witness ==
    /\ Len(chans) = 1 /\ contexts = <<>>
    /\ chans[1].io_shutdown_calls = 1 /\ chans[1].task = "replying"
    /\ mutable_state.io_shutdown_tx = None
    /\ \E c, d \in Callers :
          /\ callers[c].pc = "block_on" /\ callers[c].io = 1
          /\ callers[d].pc = "kill"

\* No force_kill_query has taken a query context out of the session.
NoForceKill ==
    /\ \A c \in Callers : callers[c].pc # "context_kill"
    /\ \A i \in 1 .. Len(contexts) : ~contexts[i].killed

(***************************************************************************)
(* C29: for any interleaving of concurrent create_context calls on one     *)
(* session with no intervening force_kill_query, at most one shared        *)
(* instance is ever installed in the session, and every returned query     *)
(* context is built from that installed instance; an instance created by   *)
(* a caller that lost the race is never returned.                          *)
(***************************************************************************)
C29_OneSharedInstalled ==
    [][NoForceKill' =>
          /\ mutable_state.context_shared # None =>
                mutable_state'.context_shared = mutable_state.context_shared
          /\ \A c \in Callers :
                callers'[c].ret # 0 =>
                   mutable_state'.context_shared = Some(callers'[c].ret)]_vars

\* Two create_context calls both ran discovery and created a shared
\* instance; both returned a context from the one that was installed.
C29_Witness ==
    /\ NoForceKill
    /\ Len(contexts) = 2
    /\ mutable_state.context_shared # None
    /\ \A c \in Callers :
          /\ callers[c].pc = "idle"
          /\ callers[c].ret = mutable_state.context_shared[1]

\* The step on which the method op, called by thread c, returns.
Returns(c, op) == callers[c].op = op /\ callers[c].pc # "idle" /\ callers'[c].pc = "idle"

(***************************************************************************)
(* C31 as stated: force_kill_session always kills the attached query       *)
(* context, with exactly one call of its kill hook, and shuts down the IO  *)
(* stream if a sender is registered; after it returns, abort = true,       *)
(* context_shared = None and io_shutdown_tx = None.  force_kill_query      *)
(* alone detaches the context and leaves the abort flag and the            *)
(* io-shutdown sender unchanged.                                           *)
(***************************************************************************)
C31_ForceKillSession ==
    [][\A c \in Callers :
          /\ Leaves(c, "force_kill_query") =>
                /\ mutable_state'.context_shared = None
                /\ mutable_state'.abort = mutable_state.abort
                /\ mutable_state'.io_shutdown_tx = mutable_state.io_shutdown_tx
                /\ mutable_state.context_shared # None =>
                      /\ callers'[c].pc = "context_kill"
                      /\ callers'[c].shared = mutable_state.context_shared[1]
          /\ Leaves(c, "context_kill") =>
                /\ ~contexts[callers[c].shared].killed
                /\ contexts'[callers[c].shared].killed
                /\ mutable_state' = mutable_state
          /\ Returns(c, "force_kill_session") =>
                /\ mutable_state'.abort
                /\ mutable_state'.context_shared = None
                /\ mutable_state'.io_shutdown_tx = None]_vars

(***************************************************************************)
(* C32: the abort flag does not block context creation.  create_context    *)
(* does not read abort: on an aborted session its second locked part       *)
(* still stores its shared context when none is stored and returns a       *)
(* context, exactly as on a session that is not aborted; kill does not     *)
(* invoke the kill hook of any context; and abort, once true, stays true.  *)
(***************************************************************************)
C32_AbortDoesNotBlockCreate ==
    [][/\ mutable_state.abort => mutable_state'.abort
       /\ \A c \in Callers :
             /\ Leaves(c, "create_context") =>
                   /\ mutable_state' = mutable_state
                   /\ IF mutable_state.context_shared # None
                      THEN callers'[c].ret = mutable_state.context_shared[1]
                      ELSE callers'[c].pc = "discover"
             /\ Leaves(c, "store") =>
                   LET own == callers[c].shared
                       r == create_context([mutable_state EXCEPT !.abort = FALSE], own)
                   IN /\ mutable_state' = [r.ms EXCEPT !.abort = mutable_state.abort]
                      /\ callers'[c].pc = "idle"
                      /\ callers'[c].ret = r.ret
                      /\ mutable_state.context_shared = None =>
                            /\ mutable_state'.context_shared = Some(own)
                            /\ callers'[c].ret = own
             /\ (Leaves(c, "kill") \/ Leaves(c, "block_on")) => contexts' = contexts]_vars

\* A kill found no context attached and shut down the IO stream; the only
\* context ever created was installed on the aborted session afterwards,
\* was returned to its caller, and has not been killed.
C32_Witness ==
    /\ mutable_state.abort
    /\ Len(chans) = 1 /\ chans[1].io_shutdown_calls = 1 /\ chans[1].reply = "sent"
    /\ mutable_state.io_shutdown_tx = None
    /\ contexts = <<[killed |-> FALSE]>>
    /\ mutable_state.context_shared = Some(1)
    /\ \A c \in Callers : callers[c].pc = "idle"
    /\ \E c \in Callers : callers[c].ret = 1

====
